---- MODULE Spec2Model ----
(***************************************************************************)
(* parse_json_response (src/modules/utils.py): recovery of a JSON value    *)
(* from the raw text of an AI response.                                    *)
(*                                                                         *)
(* A text is a sequence of characters, each a string.  Positions are       *)
(* 1-based; 0 stands for Python's -1 ("not found").                        *)
(***************************************************************************)
EXTENDS Integers, Sequences, FiniteSets, TLC

(***************************************************************************)
(* Characters                                                              *)
(***************************************************************************)
BQ == "<backtick>"   \* the backquote character (it cannot be written in a TLA+ string)
DQ == "\""
SQ == "'"
BS == "\\"
NL == "\n"
SP == " "

\* str.isspace / the regex class \s, over the characters of the model
IsSpace(c) == c \in {SP, NL, "\t", "\r"}

IsDigit(c) == c \in {"0", "1", "2", "3", "4", "5", "6", "7", "8", "9"}

IsAlpha(c) ==
    c \in {"a", "b", "c", "d", "e", "f", "g", "h", "i", "j", "k", "l", "m",
           "n", "o", "p", "q", "r", "s", "t", "u", "v", "w", "x", "y", "z",
           "A", "B", "F", "N", "T", "_"}

DigitVal(c) ==
    CASE c = "0" -> 0 [] c = "1" -> 1 [] c = "2" -> 2 [] c = "3" -> 3
      [] c = "4" -> 4 [] c = "5" -> 5 [] c = "6" -> 6 [] c = "7" -> 7
      [] c = "8" -> 8 [] c = "9" -> 9

Min(S) == CHOOSE x \in S : \A y \in S : x <= y
Max(S) == CHOOSE x \in S : \A y \in S : x >= y

\* a value computed once and named in what follows
Bind(x, Body(_)) == Body(x)

(***************************************************************************)
(* str.find, str.rfind, str.strip, slicing                                 *)
(***************************************************************************)
\* s.find(c): the first position of c in s, 0 when c does not occur
find(s, c) ==
    LET hits == {i \in 1..Len(s) : s[i] = c}
    IN  IF hits = {} THEN 0 ELSE Min(hits)

\* s.rfind(c): the last position of c in s, 0 when c does not occur
rfind(s, c) ==
    LET hits == {i \in 1..Len(s) : s[i] = c}
    IN  IF hits = {} THEN 0 ELSE Max(hits)

\* (mutant of strip) whitespace is removed inside the text as well
strip_all(s) ==
    LET keep == {i \in 1..Len(s) : ~IsSpace(s[i])}
        nth(k) == CHOOSE i \in keep : Cardinality({j \in keep : j < i}) = k - 1
    IN  [k \in 1..Cardinality(keep) |-> s[nth(k)]]

\* s.strip(): s without its leading and trailing whitespace
strip(s) ==
    LET keep == {i \in 1..Len(s) : ~IsSpace(s[i])}
    IN  IF keep = {} THEN <<>> ELSE SubSeq(s, Min(keep), Max(keep))

\* s[:k]
Prefix(s, k) == SubSeq(s, 1, IF Len(s) < k THEN Len(s) ELSE k)

\* the first position at or after p that holds no whitespace (Len(s)+1 if none)
SkipWs(s, p) ==
    LET stop == {i \in p..Len(s) : ~IsSpace(s[i])}
    IN  IF stop = {} THEN (IF p > Len(s) THEN p ELSE Len(s) + 1) ELSE Min(stop)

(***************************************************************************)
(* re.search(FENCE (?:json)? \s* ( \{[\s\S]*\} | \[[\s\S]*\] ) \s* FENCE, text)  *)
(* where FENCE is three backquotes.                                        *)
(*                                                                         *)
(* The leftmost position where the pattern matches wins.  At a position:   *)
(* three backticks, the tag json when it is there, all whitespace, then an *)
(* opener; [\s\S]* is greedy, so the group ends at the LAST closer of the  *)
(* opener's kind that is followed by optional whitespace and three         *)
(* backticks.  (Taking the tag or the whitespace only in part cannot       *)
(* match: the next character would be neither whitespace nor an opener.)   *)
(***************************************************************************)
IsFenceAt(s, i) ==
    /\ i >= 1
    /\ i + 2 <= Len(s)
    /\ s[i] = BQ /\ s[i + 1] = BQ /\ s[i + 2] = BQ

AfterTag(s, p) ==
    IF p + 3 <= Len(s) /\ SubSeq(s, p, p + 3) = <<"j", "s", "o", "n">>
    THEN p + 4 ELSE p

Closer(c) == IF c = "{" THEN "}" ELSE "]"

\* where group 1 would start for a match beginning at i
GroupStart(s, i) == SkipWs(s, AfterTag(s, i + 3))

\* the closers at which group 1 can end, for a group starting at q
GroupEnds(s, q) ==
    {e \in (q + 1)..Len(s) : s[e] = Closer(s[q]) /\ IsFenceAt(s, SkipWs(s, e + 1))}

MatchAt(s, i) ==
    /\ IsFenceAt(s, i)
    /\ LET q == GroupStart(s, i)
       IN  /\ q <= Len(s)
           /\ s[q] \in {"{", "["}
           /\ GroupEnds(s, q) # {}

\* match.group(1) as [found, from, to]; the span is s[from..to]
re_search(s) ==
    LET starts == {i \in 1..Len(s) : MatchAt(s, i)}
    IN  IF starts = {}
        THEN [found |-> FALSE, from |-> 0, to |-> 0]
        ELSE LET q == GroupStart(s, Min(starts))
             IN  [found |-> TRUE, from |-> q, to |-> Max(GroupEnds(s, q))]

(***************************************************************************)
(* Parsed values.  A value is a pair <<tag, payload>>:                     *)
(*   <<"dict", f>>   f a function from keys (values) to values             *)
(*   <<"list", q>>   q a sequence of values                                *)
(*   <<"tuple", q>>, <<"set", S>>   what only ast.literal_eval can give    *)
(*   <<"str", q>>    q the characters;  <<"num", n>>                       *)
(*   <<"const", c>>  c one of "True", "False", "None"                      *)
(***************************************************************************)
VStr(chars) == <<"str", chars>>
VNum(n) == <<"num", n>>
VConst(c) == <<"const", c>>
VList(items) == <<"list", items>>
VTuple(items) == <<"tuple", items>>
VSet(members) == <<"set", members>>

\* dict(pairs): a later pair with the same key replaces an earlier one
VDict(pairs) ==
    <<"dict",
      [k \in {pairs[i][1] : i \in DOMAIN pairs} |->
          pairs[Max({i \in DOMAIN pairs : pairs[i][1] = k})][2]]>>

IsMapping(v) == v[1] = "dict"
IsSequence(v) == v[1] = "list"

\* the outcome of a parser: err = "" on success, with the value and the
\* position after it; otherwise the name of the exception
Parsed(v, n) == [err |-> "", v |-> v, n |-> n]
Failed(e) == [err |-> e, v |-> <<>>, n |-> 0]

StartsWith(s, i, word) ==
    /\ i + Len(word) - 1 <= Len(s)
    /\ SubSeq(s, i, i + Len(word) - 1) = word

(***************************************************************************)
(* json.loads: the strict parser (json.decoder / json.scanner)             *)
(***************************************************************************)
JSONDecodeError == "JSONDecodeError"

\* json.decoder BACKSLASH: the escapes whose result is a character of the model
JsonEscapes == {DQ, BS, "/", "n", "t", "r"}
JsonUnescape(c) ==
    CASE c = "n" -> NL [] c = "t" -> "\t" [] c = "r" -> "\r" [] OTHER -> c

\* py_scanstring, from the position i after the opening quote
RECURSIVE JsonStringBody(_, _, _)
JsonStringBody(s, i, acc) ==
    IF i > Len(s) THEN Failed(JSONDecodeError)
    ELSE IF s[i] = DQ THEN Parsed(acc, i + 1)
    ELSE IF s[i] = BS
         THEN IF i + 1 <= Len(s) /\ s[i + 1] \in JsonEscapes
              THEN JsonStringBody(s, i + 2, Append(acc, JsonUnescape(s[i + 1])))
              ELSE Failed(JSONDecodeError)
    ELSE IF s[i] \in {NL, "\t", "\r"} THEN Failed(JSONDecodeError)  \* strict
    ELSE JsonStringBody(s, i + 1, Append(acc, s[i]))

\* NUMBER_RE over digits: 0, or a run of digits that does not start with 0
RECURSIVE DigitRun(_, _, _)
DigitRun(s, i, n) ==
    IF i <= Len(s) /\ IsDigit(s[i])
    THEN DigitRun(s, i + 1, 10 * n + DigitVal(s[i]))
    ELSE Parsed(VNum(n), i)

JsonNumber(s, i) ==
    IF s[i] = "0" THEN Parsed(VNum(0), i + 1) ELSE DigitRun(s, i, 0)

RECURSIVE JsonValue(_, _), JsonArrayRest(_, _, _), JsonObjectRest(_, _, _)

\* scan_once(s, i): the value that starts exactly at position i
JsonValue(s, i) ==
    IF i > Len(s) THEN Failed(JSONDecodeError)
    ELSE IF s[i] = DQ
         THEN LET r == JsonStringBody(s, i + 1, <<>>)
              IN  IF r.err = "" THEN Parsed(VStr(r.v), r.n) ELSE r
    ELSE IF s[i] = "{"
         THEN LET j == SkipWs(s, i + 1)
              IN  IF j <= Len(s) /\ s[j] = "}"
                  THEN Parsed(VDict(<<>>), j + 1)
                  ELSE JsonObjectRest(s, j, <<>>)
    ELSE IF s[i] = "["
         THEN LET j == SkipWs(s, i + 1)
              IN  IF j <= Len(s) /\ s[j] = "]"
                  THEN Parsed(VList(<<>>), j + 1)
                  ELSE JsonArrayRest(s, j, <<>>)
    ELSE IF StartsWith(s, i, <<"n", "u", "l", "l">>)
         THEN Parsed(VConst("None"), i + 4)
    ELSE IF StartsWith(s, i, <<"t", "r", "u", "e">>)
         THEN Parsed(VConst("True"), i + 4)
    ELSE IF StartsWith(s, i, <<"f", "a", "l", "s", "e">>)
         THEN Parsed(VConst("False"), i + 5)
    ELSE IF IsDigit(s[i]) THEN JsonNumber(s, i)
    ELSE Failed(JSONDecodeError)

\* JSONArray: an element at i, then ']' or ',' and the next element
JsonArrayRest(s, i, acc) ==
    LET r == JsonValue(s, i)
    IN  IF r.err # "" THEN r
        ELSE LET j == SkipWs(s, r.n)
                 items == Append(acc, r.v)
             IN  IF j > Len(s) THEN Failed(JSONDecodeError)
                 ELSE IF s[j] = "]" THEN Parsed(VList(items), j + 1)
                 ELSE IF s[j] = "," THEN JsonArrayRest(s, SkipWs(s, j + 1), items)
                 ELSE Failed(JSONDecodeError)

\* JSONObject: a double-quoted key at i, ':', a value, then '}' or ','
JsonObjectRest(s, i, acc) ==
    IF i > Len(s) \/ s[i] # DQ THEN Failed(JSONDecodeError)
    ELSE LET k == JsonStringBody(s, i + 1, <<>>)
         IN  IF k.err # "" THEN k
             ELSE LET c == SkipWs(s, k.n)
                  IN  IF c > Len(s) \/ s[c] # ":" THEN Failed(JSONDecodeError)
                      ELSE LET r == JsonValue(s, SkipWs(s, c + 1))
                           IN  IF r.err # "" THEN r
                               ELSE LET j == SkipWs(s, r.n)
                                        pairs == Append(acc, <<VStr(k.v), r.v>>)
                                    IN  IF j > Len(s) THEN Failed(JSONDecodeError)
                                        ELSE IF s[j] = "}"
                                             THEN Parsed(VDict(pairs), j + 1)
                                        ELSE IF s[j] = ","
                                             THEN JsonObjectRest(s, SkipWs(s, j + 1), pairs)
                                        ELSE Failed(JSONDecodeError)

\* json.loads(s): one value, whitespace around it allowed, nothing after it
json_loads(s) ==
    LET r == JsonValue(s, SkipWs(s, 1))
    IN  IF r.err # "" THEN r
        ELSE IF SkipWs(s, r.n) = Len(s) + 1 THEN r
        ELSE Failed(JSONDecodeError)

(***************************************************************************)
(* ast.literal_eval: the permissive parser.  It works in two phases, as    *)
(* Python does: the text is parsed to a syntax tree (SyntaxError), then    *)
(* the tree is converted to a value, left to right (ValueError for a node  *)
(* that is no literal, TypeError for an unhashable set member or key).     *)
(*                                                                         *)
(* The syntax covered is that of literal displays: strings in either       *)
(* quote (also triple-quoted, also adjacent strings), digit runs, names,   *)
(* lists, dicts, sets and the bare tuple  a, b  at top level.  Text with   *)
(* any other token is given SyntaxError.                                   *)
(***************************************************************************)
SyntaxError == "SyntaxError"
ValueError == "ValueError"
TypeError == "TypeError"

\* whitespace between tokens: a newline counts only inside brackets
PySkip(s, p, inb) ==
    LET stop == {i \in p..Len(s) : ~(s[i] \in {SP, "\t"} \/ (inb /\ s[i] \in {NL, "\r"}))}
    IN  IF stop = {} THEN (IF p > Len(s) THEN p ELSE Len(s) + 1) ELSE Min(stop)

\* the escapes of a string literal whose result is one character; any other
\* backslash stays in the string
PyUnescape(c) ==
    CASE c = "n" -> <<NL>> [] c = "t" -> <<"\t">> [] c = "r" -> <<"\r">>
      [] c \in {DQ, SQ, BS} -> <<c>>
      [] c = NL -> <<>>
      [] OTHER -> <<BS, c>>

IsQuote(c) == c \in {DQ, SQ}

\* the body of a string literal opened by quote q (three of them if triple)
RECURSIVE PyStringBody(_, _, _, _, _)
PyStringBody(s, i, q, triple, acc) ==
    IF i > Len(s) THEN Failed(SyntaxError)
    ELSE IF s[i] = q /\ ~triple THEN Parsed(acc, i + 1)
    ELSE IF triple /\ StartsWith(s, i, <<q, q, q>>) THEN Parsed(acc, i + 3)
    ELSE IF s[i] = BS
         THEN IF i + 1 <= Len(s)
              THEN PyStringBody(s, i + 2, q, triple, acc \o PyUnescape(s[i + 1]))
              ELSE Failed(SyntaxError)
    ELSE IF s[i] \in {NL, "\r"} /\ ~triple THEN Failed(SyntaxError)
    ELSE PyStringBody(s, i + 1, q, triple, Append(acc, s[i]))

\* one string literal starting at the quote at position i
PyStringLit(s, i) ==
    IF StartsWith(s, i, <<s[i], s[i], s[i]>>)
    THEN PyStringBody(s, i + 3, s[i], TRUE, <<>>)
    ELSE PyStringBody(s, i + 1, s[i], FALSE, <<>>)

\* adjacent string literals are one string
RECURSIVE PyStrings(_, _, _, _)
PyStrings(s, i, inb, acc) ==
    Bind(PyStringLit(s, i), LAMBDA r :
      IF r.err # "" THEN r
      ELSE Bind(PySkip(s, r.n, inb), LAMBDA j :
        IF j <= Len(s) /\ IsQuote(s[j])
        THEN PyStrings(s, j, inb, acc \o r.v)
        ELSE Parsed(<<"str", acc \o r.v>>, r.n)))

\* the end of the run of name characters that starts at i
NameEnd(s, i) ==
    LET stop == {j \in i..Len(s) : ~(IsAlpha(s[j]) \/ IsDigit(s[j]))}
    IN  IF stop = {} THEN Len(s) + 1 ELSE Min(stop)

PyName(s, i) ==
    LET e == NameEnd(s, i)
        w == SubSeq(s, i, e - 1)
    IN  IF e <= Len(s) /\ IsQuote(s[e]) THEN Failed(SyntaxError)
        ELSE IF w = <<"T", "r", "u", "e">> THEN Parsed(VConst("True"), e)
        ELSE IF w = <<"F", "a", "l", "s", "e">> THEN Parsed(VConst("False"), e)
        ELSE IF w = <<"N", "o", "n", "e">> THEN Parsed(VConst("None"), e)
        ELSE Parsed(<<"name", w>>, e)

\* a decimal integer: no leading zero unless every digit is zero
PyNumber(s, i) ==
    Bind(DigitRun(s, i, 0), LAMBDA r :
      IF r.n <= Len(s) /\ (IsAlpha(s[r.n]) \/ IsQuote(s[r.n])) THEN Failed(SyntaxError)
      ELSE IF s[i] = "0" /\ r.v[2] # 0 THEN Failed(SyntaxError)
      ELSE r)

RECURSIVE PyExpr(_, _, _), PyItems(_, _, _, _), PyPairs(_, _, _)

\* a display opened by a brace whose first expression starts at j: a dict if
\* a colon follows that expression, else a set
PyBrace(s, j) ==
    Bind(PyExpr(s, j, TRUE), LAMBDA k :
      IF k.err # "" THEN k
      ELSE Bind(PySkip(s, k.n, TRUE), LAMBDA c :
        IF c <= Len(s) /\ s[c] = ":"
        THEN Bind(PyPairs(s, j, <<>>), LAMBDA r :
               IF r.err # "" THEN r ELSE Parsed(<<"dictnode", r.v>>, r.n))
        ELSE Bind(PyItems(s, j, "}", <<>>), LAMBDA r :
               IF r.err # "" THEN r ELSE Parsed(<<"setnode", r.v>>, r.n))))

\* the expression that starts exactly at position i, as a syntax tree
PyExpr(s, i, inb) ==
    IF i > Len(s) THEN Failed(SyntaxError)
    ELSE IF IsQuote(s[i]) THEN PyStrings(s, i, inb, <<>>)
    ELSE IF IsDigit(s[i]) THEN PyNumber(s, i)
    ELSE IF IsAlpha(s[i]) THEN PyName(s, i)
    ELSE IF s[i] = "["
         THEN Bind(PyItems(s, PySkip(s, i + 1, TRUE), "]", <<>>), LAMBDA r :
                IF r.err # "" THEN r ELSE Parsed(<<"list", r.v>>, r.n))
    ELSE IF s[i] = "{"
         THEN Bind(PySkip(s, i + 1, TRUE), LAMBDA j :
                IF j <= Len(s) /\ s[j] = "}" THEN Parsed(<<"dictnode", <<>>>>, j + 1)
                ELSE PyBrace(s, j))
    ELSE Failed(SyntaxError)

\* what follows an expression of a display: the closer, or a comma and the
\* rest (a trailing comma is fine)
PyAfter(s, j, close) ==
    IF j > Len(s) THEN "error"
    ELSE IF s[j] = close THEN "closed"
    ELSE IF s[j] = "," THEN "more"
    ELSE "error"

\* expressions separated by commas up to the closer
PyItems(s, i, close, acc) ==
    IF i <= Len(s) /\ s[i] = close THEN Parsed(acc, i + 1)
    ELSE Bind(PyExpr(s, i, TRUE), LAMBDA r :
      IF r.err # "" THEN r
      ELSE Bind(PySkip(s, r.n, TRUE), LAMBDA j :
        CASE PyAfter(s, j, close) = "closed" -> Parsed(Append(acc, r.v), j + 1)
          [] PyAfter(s, j, close) = "more" ->
                PyItems(s, PySkip(s, j + 1, TRUE), close, Append(acc, r.v))
          [] OTHER -> Failed(SyntaxError)))

\* key: value pairs separated by commas up to the closing brace
PyPairs(s, i, acc) ==
    IF i <= Len(s) /\ s[i] = "}" THEN Parsed(acc, i + 1)
    ELSE Bind(PyExpr(s, i, TRUE), LAMBDA k :
      IF k.err # "" THEN k
      ELSE Bind(PySkip(s, k.n, TRUE), LAMBDA c :
        IF c > Len(s) \/ s[c] # ":" THEN Failed(SyntaxError)
        ELSE Bind(PyExpr(s, PySkip(s, c + 1, TRUE), TRUE), LAMBDA r :
          IF r.err # "" THEN r
          ELSE Bind(PySkip(s, r.n, TRUE), LAMBDA j :
            CASE PyAfter(s, j, "}") = "closed" ->
                    Parsed(Append(acc, <<k.v, r.v>>), j + 1)
              [] PyAfter(s, j, "}") = "more" ->
                    PyPairs(s, PySkip(s, j + 1, TRUE), Append(acc, <<k.v, r.v>>))
              [] OTHER -> Failed(SyntaxError)))))

\* the top level: one expression, or the bare tuple  a, b  (also  a,)
RECURSIVE PyTop(_, _, _)
PyTop(s, i, acc) ==
    Bind(PyExpr(s, i, FALSE), LAMBDA r :
      IF r.err # "" THEN r
      ELSE Bind(PySkip(s, r.n, FALSE), LAMBDA j :
        IF SkipWs(s, j) = Len(s) + 1
        THEN IF acc = <<>> THEN Parsed(r.v, j)
             ELSE Parsed(<<"tuple", Append(acc, r.v)>>, j)
        ELSE IF s[j] = ","
             THEN Bind(PySkip(s, j + 1, FALSE), LAMBDA n :
                    IF SkipWs(s, n) = Len(s) + 1
                    THEN Parsed(<<"tuple", Append(acc, r.v)>>, j + 1)
                    ELSE PyTop(s, n, Append(acc, r.v)))
        ELSE Failed(SyntaxError)))

\* hash(v) succeeds
RECURSIVE Hashable(_)
Hashable(v) ==
    CASE v[1] \in {"str", "num", "const"} -> TRUE
      [] v[1] = "tuple" -> \A i \in DOMAIN v[2] : Hashable(v[2][i])
      [] OTHER -> FALSE

\* literal_eval's _convert: the value of a syntax tree, or the first error
RECURSIVE Convert(_), ConvertSeq(_, _), ConvertSet(_, _), ConvertDict(_, _)
Convert(node) ==
    CASE node[1] \in {"str", "num", "const"} -> Parsed(node, 0)
      [] node[1] = "name" -> Failed(ValueError)
      [] node[1] \in {"list", "tuple"} ->
            Bind(ConvertSeq(node[2], <<>>), LAMBDA r :
              IF r.err # "" THEN r
              ELSE IF node[1] = "list" THEN Parsed(VList(r.v), 0)
              ELSE Parsed(VTuple(r.v), 0))
      [] node[1] = "setnode" -> ConvertSet(node[2], {})
      [] node[1] = "dictnode" -> ConvertDict(node[2], <<>>)

ConvertSeq(nodes, acc) ==
    IF nodes = <<>> THEN Parsed(acc, 0)
    ELSE Bind(Convert(Head(nodes)), LAMBDA r :
           IF r.err # "" THEN r ELSE ConvertSeq(Tail(nodes), Append(acc, r.v)))

ConvertSet(nodes, acc) ==
    IF nodes = <<>> THEN Parsed(VSet(acc), 0)
    ELSE Bind(Convert(Head(nodes)), LAMBDA r :
           IF r.err # "" THEN r
           ELSE IF ~Hashable(r.v) THEN Failed(TypeError)
           ELSE ConvertSet(Tail(nodes), acc \cup {r.v}))

\* a key is converted, then its value; the pair is stored after both
ConvertPair(pair) ==
    Bind(Convert(pair[1]), LAMBDA k :
      IF k.err # "" THEN k
      ELSE Bind(Convert(pair[2]), LAMBDA v :
        IF v.err # "" THEN v
        ELSE IF ~Hashable(k.v) THEN Failed(TypeError)
        ELSE Parsed(<<k.v, v.v>>, 0)))

ConvertDict(pairs, acc) ==
    IF pairs = <<>> THEN Parsed(VDict(acc), 0)
    ELSE Bind(ConvertPair(Head(pairs)), LAMBDA r :
           IF r.err # "" THEN r ELSE ConvertDict(Tail(pairs), Append(acc, r.v)))

\* ast.literal_eval(s)
literal_eval(s) ==
    Bind(PyTop(s, PySkip(s, 1, FALSE), <<>>), LAMBDA t :
      IF t.err # "" THEN t ELSE Convert(t.v))

(***************************************************************************)
(* parse_json_response, step by step (src/modules/utils.py, 13-76)         *)
(***************************************************************************)
EXCERPT_LEN == 50

\* what a call gives back: a returned value or a raised exception
NoOutcome == [kind |-> "none", value |-> <<>>, exc |-> "", msg |-> "", excerpt |-> <<>>]
Return(v) == [kind |-> "return", value |-> v, exc |-> "", msg |-> "", excerpt |-> <<>>]
Raise(e, m, x) == [kind |-> "raise", value |-> <<>>, exc |-> e, msg |-> m, excerpt |-> x]

EmptyMsg == "Empty response text"
FailedMsg == "Failed to parse JSON from response. Extracted string start: "

\* (mutant of BracketSlice) the slice runs to the end of the text: the last
\* closer is looked for but not used
BracketSlice_ToEnd(text) ==
    LET start_brace == find(text, "{")
        start_bracket == find(text, "[")
        is_object == start_brace # 0 /\ (start_bracket = 0 \/ start_brace < start_bracket)
        start == IF is_object THEN start_brace ELSE start_bracket
        end == IF is_object THEN rfind(text, "}")
               ELSE IF start_bracket # 0 THEN rfind(text, "]") ELSE 0
    IN  IF start # 0 /\ end # 0 /\ end > start THEN SubSeq(text, start, Len(text)) ELSE text

\* (mutant of BracketSlice) a brace anywhere in the text makes the value an
\* object, even when a bracket comes first
BracketSlice_BraceFirst(text) ==
    LET start_brace == find(text, "{")
        start_bracket == find(text, "[")
        is_object == start_brace # 0
        start == IF is_object THEN start_brace ELSE start_bracket
        end == IF is_object THEN rfind(text, "}")
               ELSE IF start_bracket # 0 THEN rfind(text, "]") ELSE 0
    IN  IF start # 0 /\ end # 0 /\ end > start THEN SubSeq(text, start, end) ELSE text

\* (mutant of BracketSlice) when the chosen opener has no closer after it,
\* the other kind of bracket is tried
BracketSlice_OtherKind(text) ==
    LET start_brace == find(text, "{")
        start_bracket == find(text, "[")
        is_object == start_brace # 0 /\ (start_bracket = 0 \/ start_brace < start_bracket)
        start == IF is_object THEN start_brace ELSE start_bracket
        end == IF is_object THEN rfind(text, "}")
               ELSE IF start_bracket # 0 THEN rfind(text, "]") ELSE 0
        other_start == IF is_object THEN start_bracket ELSE start_brace
        other_end == IF is_object THEN rfind(text, "]") ELSE rfind(text, "}")
    IN  IF start # 0 /\ end # 0 /\ end > start THEN SubSeq(text, start, end)
        ELSE IF other_start # 0 /\ other_end > other_start
             THEN SubSeq(text, other_start, other_end)
        ELSE text

\* lines 40-58: the span from the first opener to the last closer of its kind
BracketSlice(text) ==
    LET start_brace == find(text, "{")
        start_bracket == find(text, "[")
        is_object == start_brace # 0 /\ (start_bracket = 0 \/ start_brace < start_bracket)
        start == IF is_object THEN start_brace ELSE start_bracket
        end == IF is_object THEN rfind(text, "}")
               ELSE IF start_bracket # 0 THEN rfind(text, "]") ELSE 0
    IN  IF start # 0 /\ end # 0 /\ end > start THEN SubSeq(text, start, end) ELSE text

Count(s, c) == Cardinality({i \in 1..Len(s) : s[i] = c})

\* (mutant of ExtractCandidate) a candidate that opens more arrays than it
\* closes is completed with "]}"
ExtractCandidate_Repairing(text) ==
    LET match == re_search(text)
        cand == IF match.found THEN SubSeq(text, match.from, match.to)
                ELSE BracketSlice(text)
    IN  IF cand # <<>> /\ cand[1] = "{" /\ Count(cand, "[") > Count(cand, "]")
        THEN cand \o <<"]", "}">>
        ELSE cand

\* lines 31-58: the fenced block's interior when the pattern matches,
\* otherwise the bracket slice
ExtractCandidate(text) ==
    LET match == re_search(text)
    IN  IF match.found THEN SubSeq(text, match.from, match.to) ELSE BracketSlice(text)

\* lines 63-76, on the stripped candidate
ParseCandidate(json_str) ==
    LET strict == json_loads(json_str)
        literal == literal_eval(json_str)
    IN  IF strict.err = "" THEN Return(strict.v)
        ELSE IF literal.err = "" THEN Return(literal.v)
        ELSE IF literal.err \in {ValueError, SyntaxError}
             THEN Raise(ValueError, FailedMsg, Prefix(json_str, EXCERPT_LEN))
        ELSE Raise(literal.err, "", <<>>)

\* the whole call
parse_json_response(text) ==
    IF text = <<>> THEN Raise(ValueError, EmptyMsg, <<>>)
    ELSE ParseCandidate(strip(ExtractCandidate(text)))

(***************************************************************************)
(* Documents: JSON values as they are written, with the members of an      *)
(* object in order.  <<"obj", pairs>>, <<"arr", items>>, or a scalar value. *)
(***************************************************************************)
DObj(pairs) == <<"obj", pairs>>
DArr(items) == <<"arr", items>>

\* the value a document denotes
RECURSIVE ValueOf(_)
ValueOf(d) ==
    CASE d[1] = "arr" -> VList([i \in DOMAIN d[2] |-> ValueOf(d[2][i])])
      [] d[1] = "obj" ->
            VDict([i \in DOMAIN d[2] |-> <<VStr(d[2][i][1]), ValueOf(d[2][i][2])>>])
      [] OTHER -> d

DigitChar(k) ==
    CASE k = 0 -> "0" [] k = 1 -> "1" [] k = 2 -> "2" [] k = 3 -> "3" [] k = 4 -> "4"
      [] k = 5 -> "5" [] k = 6 -> "6" [] k = 7 -> "7" [] k = 8 -> "8" [] k = 9 -> "9"

RECURSIVE Digits(_)
Digits(n) == IF n < 10 THEN <<DigitChar(n)>> ELSE Append(Digits(n \div 10), DigitChar(n % 10))

\* json.encoder ESCAPE_DCT, for the characters of the model
RECURSIVE JsonEscape(_)
JsonEscape(chars) ==
    IF chars = <<>> THEN <<>>
    ELSE LET c == Head(chars)
             e == CASE c \in {DQ, BS} -> <<BS, c>>
                    [] c = NL -> <<BS, "n">>
                    [] OTHER -> <<c>>
         IN  e \o JsonEscape(Tail(chars))

JsonQuote(chars) == <<DQ>> \o JsonEscape(chars) \o <<DQ>>

\* json.dumps(d): items separated by ", ", key and value by ": "
RECURSIVE json_dumps(_), DumpItems(_), DumpPairs(_)
json_dumps(d) ==
    CASE d[1] = "arr" -> <<"[">> \o DumpItems(d[2]) \o <<"]">>
      [] d[1] = "obj" -> <<"{">> \o DumpPairs(d[2]) \o <<"}">>
      [] d[1] = "str" -> JsonQuote(d[2])
      [] d[1] = "num" -> Digits(d[2])
      [] d = VConst("None") -> <<"n", "u", "l", "l">>
      [] d = VConst("True") -> <<"t", "r", "u", "e">>
      [] d = VConst("False") -> <<"f", "a", "l", "s", "e">>

DumpItems(items) ==
    IF items = <<>> THEN <<>>
    ELSE IF Len(items) = 1 THEN json_dumps(items[1])
    ELSE json_dumps(items[1]) \o <<",", SP>> \o DumpItems(Tail(items))

DumpPairs(pairs) ==
    IF pairs = <<>> THEN <<>>
    ELSE LET one == JsonQuote(pairs[1][1]) \o <<":", SP>> \o json_dumps(pairs[1][2])
         IN  IF Len(pairs) = 1 THEN one ELSE one \o <<",", SP>> \o DumpPairs(Tail(pairs))

(***************************************************************************)
(* The inputs of the model                                                 *)
(***************************************************************************)
MaxItems == 2     \* members of an array or object
MaxNest == 1      \* levels of nesting around a small array or object
MaxAnyLen == 3    \* length of the texts made of arbitrary characters

Fence == <<BQ, BQ, BQ>>

PlainStr == <<"a">>
BraceStr == <<"a", SP, "}", SP, "b">>
BracketStr == <<"[", "]">> \o Fence
FenceStr == Fence \o <<"{", "}">> \o Fence
QuoteStr == <<DQ, BS>>

Strings == {PlainStr, BraceStr, BracketStr, FenceStr, QuoteStr}
Scalars == {VStr(c) : c \in Strings} \cup {VNum(1), VConst("None")}

SeqsUpTo(S, n) == UNION {[1..k -> S] : k \in 0..n}

\* the key of the i-th member of an object
KeyAt(i) == <<"k", DigitChar(i)>>

FlatDocs ==
    {DArr(q) : q \in SeqsUpTo(Scalars, MaxItems)}
    \cup {DObj([i \in DOMAIN q |-> <<KeyAt(i), q[i]>>]) : q \in SeqsUpTo(Scalars, MaxItems)}

\* the documents put between prose, and nested: at most one member
SmallDocs == {d \in FlatDocs : Len(d[2]) <= 1}

\* a small document inside n arrays or objects
RECURSIVE Nested(_)
Nested(n) ==
    IF n = 0 THEN SmallDocs
    ELSE LET inner == Nested(n - 1)
         IN  {DArr(<<d>>) : d \in inner} \cup {DObj(<<<<KeyAt(1), d>>>>) : d \in inner}

\* the mappings and sequences of the model
Docs == FlatDocs \cup UNION {Nested(n) : n \in 1..MaxNest}

FenceJson(j) == Fence \o <<"j", "s", "o", "n", NL>> \o j \o <<NL>> \o Fence
FenceBare(j) == Fence \o <<NL>> \o j \o <<NL>> \o Fence

\* prose without brackets and backquotes
CleanProse == {<<>>, <<"a", SP>>, <<SP, "a", ":", NL>>}
\* prose whose brackets are balanced
BalancedProse == {<<"a", SP, "[", "1", "]", SP>>, <<SP, "{", "a", "}", SP>>}
Prose == CleanProse \cup BalancedProse \cup {Fence}

IdeaElem(title) == DObj(<<<<<<"t", "i", "t", "l", "e">>, VStr(title)>>>>)
IdeasKey == <<"i", "d", "e", "a", "s">>
IdeaTitles == {<<"A">>, <<"B">>, BraceStr, FenceStr}

\* {"ideas": [e1, ..., en] cut off after the comma that follows en
TruncatedIdeas(elems) ==
    <<"{">> \o JsonQuote(IdeasKey) \o <<":", SP, "[">> \o DumpItems(elems) \o <<",">>

IdeaLists == {q \in SeqsUpTo({IdeaElem(t) : t \in IdeaTitles}, MaxItems) : q # <<>>}

Alphabet == {"{", "}", "[", "]", DQ, SQ, ",", SP, "a", "1"}

DocTexts == {json_dumps(d) : d \in Docs}
ScalarTexts == {json_dumps(d) : d \in Scalars \cup {VConst("True"), VNum(42)}}
FencedTexts ==
    {FenceJson(j) : j \in DocTexts \cup ScalarTexts}
    \cup {FenceBare(j) : j \in DocTexts \cup ScalarTexts}
ProseTexts == {p \o json_dumps(d) \o q : p \in Prose, q \in Prose, d \in SmallDocs}
TruncatedTexts == {TruncatedIdeas(q) : q \in IdeaLists}
AnyTexts == SeqsUpTo(Alphabet, MaxAnyLen)
BlankTexts == SeqsUpTo({SP, NL}, MaxAnyLen)

\* the documents put in two fenced blocks, and in a block with text around it
PairDocs ==
    {d \in SmallDocs : \A i \in DOMAIN d[2] :
        (IF d[1] = "arr" THEN d[2][i] ELSE d[2][i][2]) \in {VNum(1), VStr(PlainStr)}}

\* two fenced blocks, each holding a JSON value
BlockSeparators == {<<NL>>, <<NL, "a", NL>>}
TwoFenceTexts ==
    {FenceJson(json_dumps(a)) \o sep \o FenceJson(json_dumps(b)) :
        a \in PairDocs, b \in PairDocs, sep \in BlockSeparators}

\* text before and after a fenced block: plain, with brackets, with a fence
OutsideBefore == {<<>>, <<"a", SP>>, <<"[", "{", SP>>, <<"]", "}", SP>>}
OutsideAfter ==
    {<<>>, <<SP, "a">>, <<SP, "}", "]">>, <<SP, "{", "[">>, Fence,
     <<SP, "{", "}">> \o Fence, <<SP, "[", "]">> \o Fence}
FencedOutsideTexts ==
    {p \o FenceJson(json_dumps(d)) \o q : p \in OutsideBefore, q \in OutsideAfter, d \in PairDocs}
    \cup {p \o FenceBare(json_dumps(d)) \o q : p \in OutsideBefore, q \in OutsideAfter, d \in PairDocs}

\* text in which every double quote is written as a single quote
SingleQuoted(t) == [i \in DOMAIN t |-> IF t[i] = DQ THEN SQ ELSE t[i]]
\* the document texts whose strings hold no quote and no backslash
QuasiTexts == {t \in DocTexts : \A i \in DOMAIN t : t[i] \notin {SQ, BS}}
SingleQuotedTexts == {SingleQuoted(t) : t \in QuasiTexts}

\* displays with a list or a dict where a hashable value is needed
UnhashableTexts ==
    {<<"{", "[", "]", "}">>, <<"{", "[", "]", ":", SP, "1", "}">>,
     <<"{", "{", "}", ":", SP, "1", "}">>, <<"{", "1", ",", SP, "{", "}", "}">>,
     <<"a", SP, "{", "[", "1", "]", ":", SP, "1", "}", SP>>}

\* texts longer than the excerpt of the failure message
Repeat(c, n) == [i \in 1..n |-> c]
LongTexts ==
    {Repeat("a", n) : n \in {EXCERPT_LEN - 1, EXCERPT_LEN, EXCERPT_LEN + 1, 4 * EXCERPT_LEN + 1}}
    \cup {<<"a", SP, "{">> \o Repeat("a", EXCERPT_LEN) \o <<"}", SP>>,
          Fence \o <<"[">> \o Repeat("a", EXCERPT_LEN) \o <<"]", NL>> \o Fence}

Inputs ==
    DocTexts \cup ScalarTexts \cup FencedTexts \cup ProseTexts
    \cup TruncatedTexts \cup AnyTexts \cup BlankTexts
    \cup TwoFenceTexts \cup FencedOutsideTexts \cup SingleQuotedTexts
    \cup UnhashableTexts \cup LongTexts

(***************************************************************************)
(* State: one call of parse_json_response at a time                        *)
(***************************************************************************)
VARIABLES
    response_text,   \* the argument of the call
    json_str,        \* the candidate (the local variable of that name)
    pc,              \* where the call is
    outcome,         \* what the call gave back
    attempts         \* the parsers the call has consulted, in order

\* (history) an earlier call: its text and what it gave back
VARIABLES remembered

\* One run of a page script: a button handler that asks the AI, extracts the
\* value and stores it.
VARIABLES
    fpc,             \* where the handler is
    response,        \* the AI's text (the local variable of that name)
    parsed,          \* what parse_json_response gave for it
    extracted_data,  \* the competitor's stored extracted_data
    stored_ideas,    \* the project's stored ideas
    existing,        \* the stored ideas still to be deleted in this run
    pending,         \* the ideas still to be created in this run
    calls,           \* the persistence writes issued in this run, in order
    shown,           \* the messages shown in this run, in order
    at_click         \* the button of this run and the stored data when it was clicked

parser == <<response_text, json_str, pc, outcome, attempts>>
page ==
    <<fpc, response, parsed, extracted_data, stored_ideas, existing, pending, calls, shown,
      at_click>>
\* AIProvider.generate_with_retry: one call
VARIABLES
    rpc,             \* where the call is
    max_retries,     \* the argument of that name
    attempt,         \* the loop variable
    last_error,      \* the local variable of that name
    history,         \* what each invocation of generate gave, in order
    sleeps,          \* the multiples of retry_delay slept, in order
    result           \* what the call gave back

retry == <<rpc, max_retries, attempt, last_error, history, sleeps, result>>

\* DataStore: the database behind it and one operation on it
VARIABLES
    client,          \* whether self.supabase is a client (else None)
    fk,              \* what the database does with references to a deleted row
    db,              \* the rows of each table
    before,          \* the rows of each table before the operation
    op,              \* the operation: its name, arguments and what it gave back
    db_calls         \* the requests the operation sent to the database, in order

store == <<client, fk, db, before, op, db_calls>>

\* PromptManager: the prompt files, their version files and the clock
VARIABLES
    now,             \* the time, in seconds
    current,         \* the content of each prompt file, "" when there is none
    versions,        \* the version files: prompt name, timestamp and content
    overwritten,     \* (history) the contents of each prompt that were written over
    pop              \* the last operation and what it gave back

prompts == <<now, current, versions, overwritten, pop>>

\* SettingsManager: the settings of a manager and the two places they are
\* saved to
VARIABLES
    settings,        \* self._settings of the manager
    remote,          \* the settings row of the database (key 'main'), NoSettings when there is none
    local_file,      \* the content of settings.json, NoSettings when there is none
    last_set,        \* (history) the key and value of the last set that returned
    sop              \* the last operation: name, arguments, result, the settings before it

manager == <<settings, remote, local_file, last_set, sop>>

\* The differentiation page's session (src/pages/04, lines 199-204 and
\* 290-468): the stored ideas of the project, the category filter, the
\* checkboxes and st.session_state.selected_ideas
VARIABLES
    project_ideas,   \* the stored ideas of the project: category by id
    next_id,         \* the number of ids given out so far (an id is never given twice)
    category_filter, \* the option of the category selectbox
    widget_state,    \* the value of each checkbox drawn by the last run, by idea id
    selected_ideas,  \* st.session_state.selected_ideas
    listed,          \* the ids of the ideas listed by the last run
    selected_count,  \* the displayed number of selected ideas
    confirmed        \* the ids written as selected by the last confirmation

session == <<project_ideas, next_id, category_filter, widget_state, selected_ideas, listed,
             selected_count, confirmed>>

services == <<retry, store, prompts, manager, session>>
besides_retry == <<parser, remembered, page, store, prompts, manager, session>>
besides_store == <<parser, remembered, page, retry, prompts, manager, session>>
besides_prompts == <<parser, remembered, page, retry, store, manager, session>>
besides_manager == <<parser, remembered, page, retry, store, prompts, session>>
besides_session == <<parser, remembered, page, retry, store, prompts, manager>>

callers == <<remembered, page, services>>
vars == <<parser, remembered, page, services>>

NoCall == [text |-> <<>>, outcome |-> NoOutcome]

\* no page script is running and nothing is stored
PageIdle ==
    /\ fpc = "idle"
    /\ response = <<>>
    /\ parsed = NoOutcome
    /\ extracted_data = VConst("None")
    /\ stored_ideas = <<>>
    /\ existing = <<>>
    /\ pending = <<>>
    /\ calls = <<>>
    /\ shown = <<>>
    /\ at_click = <<"none", VConst("None"), <<>>>>

NoResult == [kind |-> "none", text |-> "", exc |-> ""]

RetryIdle ==
    /\ rpc = "idle"
    /\ max_retries = 0
    /\ attempt = -1
    /\ last_error = "None"
    /\ history = <<>>
    /\ sleeps = <<>>
    /\ result = NoResult

\* the names of the data types, as strings of characters
PROJECTS == <<"p", "r", "o", "j", "e", "c", "t", "s">>
COMPETITORS == <<"c", "o", "m", "p", "e", "t", "i", "t", "o", "r", "s">>
REVIEWS == <<"r", "e", "v", "i", "e", "w", "s">>
IDEAS == <<"i", "d", "e", "a", "s">>
EMPLOYEE_PERSONAS == <<"e", "m", "p", "l", "o", "y", "e", "e", "_", "p", "e", "r", "s", "o", "n", "a", "s">>
EMPLOYEE_FEEDBACK == <<"e", "m", "p", "l", "o", "y", "e", "e", "_", "f", "e", "e", "d", "b", "a", "c", "k">>
SETTINGS == <<"s", "e", "t", "t", "i", "n", "g", "s">>
POSITIONING == <<"p", "o", "s", "i", "t", "i", "o", "n", "i", "n", "g">>

\* TABLE_MAPPING (data_store 17-26)
TABLE_MAPPING ==
    [t \in {PROJECTS, COMPETITORS, REVIEWS, IDEAS, EMPLOYEE_PERSONAS, EMPLOYEE_FEEDBACK, SETTINGS} |->
        CASE t = PROJECTS -> "projects"
          [] t = COMPETITORS -> "competitors"
          [] t = REVIEWS -> "review_analysis"
          [] t = IDEAS -> "differentiation_ideas"
          [] t = EMPLOYEE_PERSONAS -> "employee_personas"
          [] t = EMPLOYEE_FEEDBACK -> "employee_feedback"
          [] t = SETTINGS -> "settings"]

Tables == {TABLE_MAPPING[t] : t \in DOMAIN TABLE_MAPPING}

NoOp ==
    [name |-> "none", data_type |-> <<>>, id |-> "", ret |-> <<"none">>, raised |-> FALSE,
     shown |-> <<>>]

StoreIdle ==
    /\ client = TRUE
    /\ fk = "none"
    /\ db = [t \in Tables |-> {}]
    /\ before = db
    /\ op = NoOp
    /\ db_calls = <<>>

PromptNames == {"extract", "custom"}
NoPromptOp == [name |-> "none", prompt |-> "", ret |-> FALSE, content |-> "", replaced |-> ""]

PromptsIdle ==
    /\ now = 0
    /\ current = [n \in PromptNames |-> ""]
    /\ versions = {}
    /\ overwritten = [n \in PromptNames |-> {}]
    /\ pop = NoPromptOp

\* a settings value: a dict of settings values by key, or a leaf (a string;
\* "None" and "True" stand for None and True)
SDict(f) == <<"dict", f>>
SLeaf(s) == <<"leaf", s>>
SNone == SLeaf("None")
NoSettings == <<"absent", "">>

\* lines 65-80: _default_settings
DefaultSettings ==
    SDict([ai |-> SDict([provider |-> SLeaf("google"),
                         models |-> SDict([google |-> SLeaf("gemini-2.0-flash"),
                                           anthropic |-> SLeaf("claude-3-5-sonnet-20241022"),
                                           openai |-> SLeaf("gpt-4o")]),
                         task_models |-> SDict(<<>>)]),
           ui |-> SDict([sidebar_expanded |-> SLeaf("True")])])

NoSettingsOp == [name |-> "none", args |-> <<>>, ret |-> SNone, raised |-> FALSE, before |-> NoSettings]
NoSet == [key |-> <<>>, value |-> SNone]

ManagerIdle ==
    /\ settings = DefaultSettings
    /\ remote = NoSettings
    /\ local_file = NoSettings
    /\ last_set = NoSet
    /\ sop = NoSettingsOp

\* 04 lines 201: the first option of the category selectbox (all categories)
ALL_CATEGORIES == <<"a", "l", "l">>

SessionIdle ==
    /\ project_ideas = <<>>
    /\ next_id = 0
    /\ category_filter = ALL_CATEGORIES
    /\ widget_state = <<>>
    /\ selected_ideas = {}
    /\ listed = {}
    /\ selected_count = 0
    /\ confirmed = {}

ServicesIdle ==
    /\ RetryIdle
    /\ StoreIdle
    /\ PromptsIdle
    /\ ManagerIdle
    /\ SessionIdle

Init ==
    /\ response_text = <<>>
    /\ json_str = <<>>
    /\ pc = "idle"
    /\ outcome = NoOutcome
    /\ attempts = <<>>
    /\ remembered = NoCall
    /\ PageIdle
    /\ ServicesIdle

\* a caller passes the AI's text
Call(text) ==
    /\ pc = "idle"
    /\ response_text' = text
    /\ json_str' = <<>>
    /\ pc' = "check"
    /\ outcome' = NoOutcome
    /\ attempts' = <<>>
    /\ UNCHANGED callers

\* (mutant of CheckEmpty) whitespace counts as empty
CheckEmpty_Stripped ==
    /\ pc = "check"
    /\ IF strip(response_text) = <<>>
       THEN /\ outcome' = Raise(ValueError, EmptyMsg, <<>>)
            /\ pc' = "done"
       ELSE /\ outcome' = outcome
            /\ pc' = "extract"
    /\ UNCHANGED <<response_text, json_str, attempts>>
    /\ UNCHANGED callers

\* lines 26-27
CheckEmpty ==
    /\ pc = "check"
    /\ IF response_text = <<>>
       THEN /\ outcome' = Raise(ValueError, EmptyMsg, <<>>)
            /\ pc' = "done"
       ELSE /\ outcome' = outcome
            /\ pc' = "extract"
    /\ UNCHANGED <<response_text, json_str, attempts>>
    /\ UNCHANGED callers

\* (mutant of Extract) the candidate is cached: once a call is remembered,
\* the candidate is taken from the remembered text
Extract_Cached ==
    /\ pc = "extract"
    /\ json_str' = IF remembered = NoCall THEN ExtractCandidate(response_text)
                   ELSE ExtractCandidate(remembered.text)
    /\ pc' = "strip"
    /\ UNCHANGED <<response_text, outcome, attempts>>
    /\ UNCHANGED callers

\* lines 29-58
Extract ==
    /\ pc = "extract"
    /\ json_str' = ExtractCandidate(response_text)
    /\ pc' = "strip"
    /\ UNCHANGED <<response_text, outcome, attempts>>
    /\ UNCHANGED callers

\* line 61
Strip ==
    /\ pc = "strip"
    /\ json_str' = strip(json_str)
    /\ pc' = "strict"
    /\ UNCHANGED <<response_text, outcome, attempts>>
    /\ UNCHANGED callers

\* (mutant of StrictParse) a strict success does not end the call: the
\* permissive parser is consulted all the same
StrictParse_Fallthrough ==
    /\ pc = "strict"
    /\ attempts' = Append(attempts, "json.loads")
    /\ LET r == json_loads(json_str)
       IN  IF r.err = ""
           THEN outcome' = Return(r.v) /\ pc' = "literal"
           ELSE outcome' = outcome /\ pc' = "literal"
    /\ UNCHANGED <<response_text, json_str>>
    /\ UNCHANGED callers

\* lines 63-67
StrictParse ==
    /\ pc = "strict"
    /\ attempts' = Append(attempts, "json.loads")
    /\ LET r == json_loads(json_str)
       IN  IF r.err = ""
           THEN outcome' = Return(r.v) /\ pc' = "done"
           ELSE outcome' = outcome /\ pc' = "literal"
    /\ UNCHANGED <<response_text, json_str>>
    /\ UNCHANGED callers

\* lines 69-73: ValueError and SyntaxError are caught, anything else escapes
LiteralParse ==
    /\ pc = "literal"
    /\ attempts' = Append(attempts, "ast.literal_eval")
    /\ LET r == literal_eval(json_str)
       IN  IF r.err = ""
           THEN outcome' = Return(r.v) /\ pc' = "done"
           ELSE IF r.err \in {ValueError, SyntaxError}
                THEN outcome' = outcome /\ pc' = "fail"
                ELSE outcome' = Raise(r.err, "", <<>>) /\ pc' = "done"
    /\ UNCHANGED <<response_text, json_str>>
    /\ UNCHANGED callers

\* (mutant of Fail) the failure has an exception type of its own
Fail_OwnKind ==
    /\ pc = "fail"
    /\ outcome' = Raise("UnparsableResponseError", FailedMsg, Prefix(json_str, EXCERPT_LEN))
    /\ pc' = "done"
    /\ UNCHANGED <<response_text, json_str, attempts>>
    /\ UNCHANGED callers

\* lines 75-76
Fail ==
    /\ pc = "fail"
    /\ outcome' = Raise(ValueError, FailedMsg, Prefix(json_str, EXCERPT_LEN))
    /\ pc' = "done"
    /\ UNCHANGED <<response_text, json_str, attempts>>
    /\ UNCHANGED callers

\* the caller has the outcome; the next call starts afresh (nothing is kept)
Finish ==
    /\ pc = "done"
    /\ pc' = "idle"
    /\ response_text' = <<>>
    /\ json_str' = <<>>
    /\ outcome' = NoOutcome
    /\ attempts' = <<>>
    /\ UNCHANGED callers

Next ==
    \/ \E text \in Inputs : Call(text)
    \/ CheckEmpty
    \/ Extract
    \/ Strip
    \/ StrictParse
    \/ LiteralParse
    \/ Fail
    \/ Finish

Spec == Init /\ [][Next]_vars

(***************************************************************************)
(* Calls one after another, one earlier call being remembered with its     *)
(* outcome, so that a later call on the same text can be compared with it. *)
(***************************************************************************)
RepeatInputs ==
    {<<>>, <<SP>>, <<"a">>}
    \cup ScalarTexts
    \cup UnhashableTexts
    \cup {json_dumps(d) : d \in PairDocs}
    \cup {FenceJson(json_dumps(d)) : d \in PairDocs}
    \cup {SingleQuoted(json_dumps(d)) : d \in PairDocs}
    \cup {<<"a", SP>> \o json_dumps(d) \o <<SP, "}">> : d \in PairDocs}

\* the caller has the outcome; this call, or the one already remembered, is
\* remembered from now on
FinishRemembering ==
    /\ pc = "done"
    /\ pc' = "idle"
    /\ response_text' = <<>>
    /\ json_str' = <<>>
    /\ outcome' = NoOutcome
    /\ attempts' = <<>>
    /\ remembered' \in {remembered, [text |-> response_text, outcome |-> outcome]}
    /\ UNCHANGED <<page, services>>

RepeatNext ==
    \/ \E text \in RepeatInputs : Call(text)
    \/ CheckEmpty
    \/ Extract
    \/ Strip
    \/ StrictParse
    \/ LiteralParse
    \/ Fail
    \/ FinishRemembering

RepeatSpec == Init /\ [][RepeatNext]_vars

(***************************************************************************)
(* The page scripts that call parse_json_response and store its value:     *)
(* the competitor's AI analysis (src/pages/02, lines 255-311) and the      *)
(* regeneration of the ideas (src/pages/04, lines 223-286).  One run of a  *)
(* script handles one button, and a behaviour of FlowSpec is one run,      *)
(* from any of the stored data below.  The persistence calls are those of  *)
(* DataStore (src/modules/data_store.py): a call whose request fails       *)
(* changes nothing and raises nothing.  The timestamps that DataStore adds *)
(* to a record are left out.                                               *)
(***************************************************************************)
PROJECT_ID == VStr(<<"P">>)
TitleKey == <<"t", "i", "t", "l", "e">>

\* what the AI answers
FlowResponses ==
    {json_dumps(DObj(<<<<IdeasKey, DArr(<<IdeaElem(<<"A">>)>>)>>>>)),
     json_dumps(DObj(<<<<IdeasKey, DArr(<<IdeaElem(<<"A">>), IdeaElem(<<"B">>)>>)>>>>)),
     json_dumps(DObj(<<<<IdeasKey, DArr(<<>>)>>>>)),
     json_dumps(DObj(<<<<IdeasKey, DArr(<<VStr(<<"A">>)>>)>>>>)),
     json_dumps(DObj(<<<<IdeasKey, VNum(1)>>>>)),
     FenceJson(json_dumps(DObj(<<<<KeyAt(1), VNum(1)>>>>))),
     json_dumps(DObj(<<<<KeyAt(2), VStr(<<"a">>)>>>>)),
     json_dumps(DArr(<<VNum(1)>>)),
     json_dumps(DArr(<<DArr(<<VStr(KeyAt(2)), VNum(1)>>)>>)),
     json_dumps(VNum(42)),
     <<"a", SP, "b">>,
     <<"{", "[", "]", "}">>,
     TruncatedIdeas(<<IdeaElem(<<"A">>)>>),
     <<>>}

\* what is stored for the competitor before a run
StoredData ==
    {VConst("None"), VDict(<<>>), VDict(<<<<VStr(KeyAt(1)), VNum(2)>>, <<VStr(KeyAt(3)), VNum(3)>>>>),
     VStr(<<"a">>)}

\* bool(v)
Truthy(v) ==
    CASE v[1] = "const" -> v[2] = "True"
      [] v[1] = "num" -> v[2] # 0
      [] v[1] = "dict" -> DOMAIN v[2] # {}
      [] v[1] = "set" -> v[2] # {}
      [] OTHER -> v[2] # <<>>

\* the members of a finite set, one after another
SeqOf(S) == CHOOSE q \in [1..Cardinality(S) -> S] : {q[i] : i \in DOMAIN q} = S

\* whether iter(v) is defined; it raises TypeError otherwise
Iterable(v) == v[1] \in {"list", "tuple", "str", "dict", "set"}

\* the elements that a loop over v visits.  The order of the keys of a dict
\* and of the members of a set is not kept by the model.
Iterate(v) ==
    CASE v[1] \in {"list", "tuple"} -> v[2]
      [] v[1] = "str" -> [i \in DOMAIN v[2] |-> VStr(<<v[2][i]>>)]
      [] v[1] = "dict" -> SeqOf(DOMAIN v[2])
      [] v[1] = "set" -> SeqOf(v[2])

\* d[key] = val
SetItem(d, key, val) ==
    <<"dict", [k \in DOMAIN d[2] \cup {key} |-> IF k = key THEN val ELSE d[2][k]]>>

\* d.update(e) for a sequence e of pairs, element by element
RECURSIVE UpdatePairs(_, _)
UpdatePairs(d, elems) ==
    IF elems = <<>> THEN Parsed(d, 0)
    ELSE IF ~Iterable(Head(elems)) THEN Failed(TypeError)
    ELSE Bind(Iterate(Head(elems)), LAMBDA pair :
           IF Len(pair) # 2 THEN Failed(ValueError)
           ELSE IF ~Hashable(pair[1]) THEN Failed(TypeError)
           ELSE UpdatePairs(SetItem(d, pair[1], pair[2]), Tail(elems)))

\* d.update(e): the keys of a mapping e override those of d; any other e is
\* read as a sequence of pairs
dict_update(d, e) ==
    IF e[1] = "dict"
    THEN Parsed(<<"dict", [k \in DOMAIN d[2] \cup DOMAIN e[2] |->
                              IF k \in DOMAIN e[2] THEN e[2][k] ELSE d[2][k]]>>, 0)
    ELSE IF ~Iterable(e) THEN Failed(TypeError)
    ELSE UpdatePairs(d, Iterate(e))

\* 02 lines 298-302: the stored data overridden by the extracted value
MergeExtracted(stored, extracted) ==
    Bind(IF Truthy(stored) THEN stored ELSE VDict(<<>>), LAMBDA current_data :
      IF current_data[1] = "dict" THEN dict_update(current_data, extracted)
      ELSE Parsed(extracted, 0))

\* 04 lines 255-257: the value under "ideas" and its length are asked for
\* within the try; "" when that goes through, else the exception
IdeasOf(v) == IF VStr(IdeasKey) \in DOMAIN v[2] THEN v[2][VStr(IdeasKey)] ELSE VList(<<>>)
IdeasError(out) ==
    IF out.kind = "raise" THEN out.exc
    ELSE IF out.value[1] # "dict" THEN "AttributeError"
    ELSE IF IdeasOf(out.value)[1] \in {"num", "const"} THEN TypeError
    ELSE ""

\* uuid4: an id that no stored idea has
Ids == 1..9
IdKey == VStr(<<"i", "d">>)
IdOf(n) == VStr(<<"u", DigitChar(n)>>)
FreshId(stored) ==
    IdOf(Min({n \in Ids : \A i \in DOMAIN stored : stored[i][2][IdKey] # IdOf(n)}))

\* a stored idea
StoredIdea(title, n) ==
    VDict(<<<<VStr(TitleKey), VStr(title)>>, <<VStr(<<"p", "r", "o", "j", "e", "c", "t", "_", "i", "d">>), PROJECT_ID>>,
            <<VStr(<<"s", "e", "l", "e", "c", "t", "e", "d">>), VConst("True")>>, <<IdKey, IdOf(n)>>>>)

StoredIdeaLists == {<<>>, <<StoredIdea(<<"O">>, 1)>>, <<StoredIdea(<<"O">>, 1), StoredIdea(<<"N">>, 2)>>}

RunLocalsReset ==
    /\ response' = <<>>
    /\ parsed' = NoOutcome
    /\ existing' = <<>>
    /\ pending' = <<>>
    /\ calls' = <<>>
    /\ shown' = <<>>

FlowInit ==
    /\ response_text = <<>>
    /\ json_str = <<>>
    /\ pc = "idle"
    /\ outcome = NoOutcome
    /\ attempts = <<>>
    /\ remembered = NoCall
    /\ fpc = "idle"
    /\ response = <<>>
    /\ parsed = NoOutcome
    /\ extracted_data \in StoredData
    /\ stored_ideas \in StoredIdeaLists
    /\ existing = <<>>
    /\ pending = <<>>
    /\ calls = <<>>
    /\ shown = <<>>
    /\ at_click = <<"none", extracted_data, stored_ideas>>
    /\ ServicesIdle

\* 02 line 253: the analysis button of a competitor is pressed
ClickExtract ==
    /\ fpc = "idle"
    /\ fpc' = "ext_generate"
    /\ RunLocalsReset
    /\ at_click' = <<"extract", extracted_data, stored_ideas>>
    /\ UNCHANGED <<extracted_data, stored_ideas>>
    /\ UNCHANGED <<parser, remembered, services>>

\* 02 lines 256-292, 310-311: the prompt is built and the AI is asked; an
\* exception there is shown as an error
ExtGenerate ==
    /\ fpc = "ext_generate"
    /\ \/ \E text \in FlowResponses : response' = text /\ fpc' = "ext_parse" /\ shown' = shown
       \/ response' = response /\ fpc' = "end" /\ shown' = Append(shown, "error")
    /\ UNCHANGED <<parsed, extracted_data, stored_ideas, existing, pending, calls, at_click>>
    /\ UNCHANGED <<parser, remembered, services>>

\* 02 lines 295-296, 307-311: ValueError is shown by the inner handler, any
\* other exception by the outer one
ExtParse ==
    /\ fpc = "ext_parse"
    /\ parsed' = parse_json_response(response)
    /\ IF parsed'.kind = "return"
       THEN fpc' = "ext_store" /\ shown' = shown
       ELSE fpc' = "end" /\ shown' = Append(shown, "error")
    /\ UNCHANGED <<response, extracted_data, stored_ideas, existing, pending, calls, at_click>>
    /\ UNCHANGED <<parser, remembered, services>>

\* 02 lines 297-306: merge, one update call, the success message; an
\* exception of the merge is shown as an error and nothing is stored
ExtStore ==
    /\ fpc = "ext_store"
    /\ LET merged == MergeExtracted(extracted_data, parsed.value)
       IN  IF merged.err # ""
           THEN /\ shown' = Append(shown, "error")
                /\ UNCHANGED <<extracted_data, calls>>
           ELSE /\ calls' = Append(calls, "update")
                /\ extracted_data' \in {merged.v, extracted_data}
                /\ shown' = Append(shown, "success")
    /\ fpc' = "end"
    /\ UNCHANGED <<response, parsed, stored_ideas, existing, pending, at_click>>
    /\ UNCHANGED <<parser, remembered, services>>

\* 04 line 223: the regeneration button is pressed
ClickRegenerate ==
    /\ fpc = "idle"
    /\ fpc' = "idea_generate"
    /\ RunLocalsReset
    /\ at_click' = <<"regenerate", extracted_data, stored_ideas>>
    /\ UNCHANGED <<extracted_data, stored_ideas>>
    /\ UNCHANGED <<parser, remembered, services>>

\* 04 lines 225-251, 281-286
IdeaGenerate ==
    /\ fpc = "idea_generate"
    /\ \/ \E text \in FlowResponses : response' = text /\ fpc' = "idea_parse" /\ shown' = shown
       \/ response' = response /\ fpc' = "end" /\ shown' = Append(shown, "error")
    /\ UNCHANGED <<parsed, extracted_data, stored_ideas, existing, pending, calls, at_click>>
    /\ UNCHANGED <<parser, remembered, services>>

\* (mutant of IdeaParse) the error is shown but the script is not stopped:
\* it goes on with no ideas
IdeaParse_Continuing ==
    /\ fpc = "idea_parse"
    /\ parsed' = parse_json_response(response)
    /\ IF IdeasError(parsed') # ""
       THEN /\ shown' = Append(shown, "error")
            /\ pending' = <<>>
       ELSE /\ shown' = shown
            /\ pending' = Iterate(IdeasOf(parsed'.value))
    /\ fpc' = "idea_delete"
    /\ existing' \in {stored_ideas, <<>>}
    /\ UNCHANGED <<response, extracted_data, stored_ideas, calls, at_click>>
    /\ UNCHANGED <<parser, remembered, services>>

\* 04 lines 254-268: any exception of the extraction is shown and the script
\* stops; otherwise the ideas of the answer and the stored ideas are read
\* (a list request that fails gives no stored idea)
IdeaParse ==
    /\ fpc = "idea_parse"
    /\ parsed' = parse_json_response(response)
    /\ IF IdeasError(parsed') # ""
       THEN /\ shown' = Append(shown, "error")
            /\ fpc' = "end"
            /\ UNCHANGED <<existing, pending>>
       ELSE /\ shown' = shown
            /\ fpc' = "idea_delete"
            /\ existing' \in {stored_ideas, <<>>}
            /\ pending' = Iterate(IdeasOf(parsed'.value))
    /\ UNCHANGED <<response, extracted_data, stored_ideas, calls, at_click>>
    /\ UNCHANGED <<parser, remembered, services>>

\* the rows of a table without those of a given id
WithoutId(rows, id) == SelectSeq(rows, LAMBDA r : r[2][IdKey] # id)

\* 04 lines 269-270: one delete call for each idea that was stored
IdeaDelete ==
    /\ fpc = "idea_delete"
    /\ IF existing = <<>>
       THEN /\ fpc' = "idea_create"
            /\ UNCHANGED <<existing, stored_ideas, calls>>
       ELSE /\ fpc' = fpc
            /\ existing' = Tail(existing)
            /\ calls' = Append(calls, "delete")
            /\ stored_ideas' \in {WithoutId(stored_ideas, Head(existing)[2][IdKey]), stored_ideas}
    /\ UNCHANGED <<response, parsed, extracted_data, pending, shown, at_click>>
    /\ UNCHANGED <<parser, remembered, services>>

\* the record that create stores for an idea of the answer (lines 273-275,
\* data_store 76-77)
NewIdea(idea, stored) ==
    SetItem(SetItem(SetItem(idea, VStr(<<"p", "r", "o", "j", "e", "c", "t", "_", "i", "d">>), PROJECT_ID),
                    VStr(<<"s", "e", "l", "e", "c", "t", "e", "d">>), VConst("False")),
            IdKey, FreshId(stored))

\* 04 lines 272-286: one create call for each idea of the answer, then the
\* success message; an element that is no mapping raises TypeError, which
\* is shown, and the script stops; a create whose insert fails shows an
\* error and the loop goes on
IdeaCreate ==
    /\ fpc = "idea_create"
    /\ IF pending = <<>>
       THEN /\ shown' = Append(shown, "success")
            /\ fpc' = "end"
            /\ UNCHANGED <<pending, stored_ideas, calls>>
       ELSE IF Head(pending)[1] # "dict"
       THEN /\ shown' = Append(shown, "error")
            /\ fpc' = "end"
            /\ UNCHANGED <<pending, stored_ideas, calls>>
       ELSE /\ fpc' = fpc
            /\ pending' = Tail(pending)
            /\ calls' = Append(calls, "create")
            /\ \/ /\ stored_ideas' = Append(stored_ideas, NewIdea(Head(pending), stored_ideas))
                  /\ shown' = shown
               \/ /\ stored_ideas' = stored_ideas
                  /\ shown' = Append(shown, "error")
    /\ UNCHANGED <<response, parsed, extracted_data, existing, at_click>>
    /\ UNCHANGED <<parser, remembered, services>>

FlowNext ==
    \/ ClickExtract
    \/ ExtGenerate
    \/ ExtParse
    \/ ExtStore
    \/ ClickRegenerate
    \/ IdeaGenerate
    \/ IdeaParse
    \/ IdeaDelete
    \/ IdeaCreate

FlowSpec == FlowInit /\ [][FlowNext]_vars

(***************************************************************************)
(* AIProvider.generate_with_retry (src/modules/ai_provider.py, lines       *)
(* 229-254).  generate is the call to the AI service: it returns a text    *)
(* or raises.  KeyboardInterrupt stands for the exceptions that are no     *)
(* Exception, which the handler of line 248 does not catch.                *)
(***************************************************************************)
MaxRetries == 3

GeneratedTexts == {"t1", "t2"}
GenerateErrors == {"E1", "E2", "E3"}

Returned(text) == [kind |-> "return", text |-> text, exc |-> ""]
Raised(e) == [kind |-> "raise", text |-> "", exc |-> e]

RetryInit ==
    /\ response_text = <<>>
    /\ json_str = <<>>
    /\ pc = "idle"
    /\ outcome = NoOutcome
    /\ attempts = <<>>
    /\ remembered = NoCall
    /\ PageIdle
    /\ ServicesIdle

\* line 229: the call, with its max_retries
RetryCall ==
    /\ rpc = "idle"
    /\ \E n \in 0..MaxRetries : max_retries' = n
    /\ last_error' = "None"
    /\ rpc' = "for"
    /\ UNCHANGED <<attempt, history, sleeps, result>>
    /\ UNCHANGED besides_retry

\* line 240: the next value of range(max_retries)
ForNext ==
    /\ rpc = "for"
    /\ Len(history) < max_retries
    /\ attempt' = Len(history)
    /\ rpc' = "generate"
    /\ UNCHANGED <<max_retries, last_error, history, sleeps, result>>
    /\ UNCHANGED besides_retry

\* lines 241-250: generate is invoked; its text is returned, or its
\* exception is kept and, before another attempt, the delay is slept
Generate ==
    /\ rpc = "generate"
    /\ \/ \E text \in GeneratedTexts :
             /\ history' = Append(history, Returned(text))
             /\ result' = Returned(text)
             /\ rpc' = "done"
             /\ UNCHANGED <<last_error, sleeps>>
       \/ \E e \in GenerateErrors :
             /\ history' = Append(history, Raised(e))
             /\ last_error' = e
             /\ sleeps' = IF attempt < max_retries - 1 THEN Append(sleeps, attempt + 1) ELSE sleeps
             /\ rpc' = "for"
             /\ UNCHANGED result
       \/ /\ history' = Append(history, Raised("KeyboardInterrupt"))
          /\ result' = Raised("KeyboardInterrupt")
          /\ rpc' = "done"
          /\ UNCHANGED <<last_error, sleeps>>
    /\ UNCHANGED <<max_retries, attempt>>
    /\ UNCHANGED besides_retry

\* line 252: raise last_error; raising None is a TypeError
RaiseLast ==
    /\ rpc = "for"
    /\ ~(Len(history) < max_retries)
    /\ result' = IF last_error = "None" THEN Raised(TypeError) ELSE Raised(last_error)
    /\ rpc' = "done"
    /\ UNCHANGED <<max_retries, attempt, last_error, history, sleeps>>
    /\ UNCHANGED besides_retry

RetryNext ==
    \/ RetryCall
    \/ ForNext
    \/ Generate
    \/ RaiseLast

RetrySpec == RetryInit /\ [][RetryNext]_vars

(***************************************************************************)
(* DataStore (src/modules/data_store.py).  The database is a set of rows   *)
(* for each table.  A row has an id, at most one reference to a parent     *)
(* row, and a value v that stands for its other columns; timestamps are    *)
(* left out.  A request to the database is answered or fails (the network, *)
(* a column the table does not have, an id that is taken, a reference      *)
(* that the database refuses).  What the database does with the rows that  *)
(* refer to a deleted row is a setting of the database, not of the code    *)
(* (line 144): nothing, delete them too, or refuse the deletion.  A        *)
(* behaviour of StoreSpec is one operation on any of the stores below.     *)
(***************************************************************************)
ID_COL == <<"i", "d">>
PROJECT_ID_COL == <<"p", "r", "o", "j", "e", "c", "t", "_", "i", "d">>
EMPLOYEE_ID_COL == <<"e", "m", "p", "l", "o", "y", "e", "e", "_", "i", "d">>

\* DATA_HIERARCHY (lines 29-35): the child types in the order of the dict,
\* and the parent of each
ChildTypes == <<COMPETITORS, REVIEWS, IDEAS, EMPLOYEE_FEEDBACK>>
DATA_HIERARCHY ==
    [t \in {PROJECTS, COMPETITORS, REVIEWS, IDEAS, EMPLOYEE_FEEDBACK} |->
        CASE t = PROJECTS -> <<>>
          [] t \in {COMPETITORS, REVIEWS, IDEAS} -> PROJECTS
          [] t = EMPLOYEE_FEEDBACK -> EMPLOYEE_PERSONAS]

\* line 166, line 203: f"{parent_type[:-1]}_id"
ParentKey(parent_type) == SubSeq(parent_type, 1, Len(parent_type) - 1) \o <<"_", "i", "d">>

\* (mutant of GetTableName) a data type without a table is given one
GetTableName_Defaulting(data_type) ==
    IF data_type \in DOMAIN TABLE_MAPPING THEN TABLE_MAPPING[data_type] ELSE "projects"

\* lines 57-58: the table of a data type, "" when it has none
GetTableName(data_type) ==
    IF data_type \in DOMAIN TABLE_MAPPING THEN TABLE_MAPPING[data_type] ELSE ""

\* the column by which the rows of a table refer to their parent, as the
\* pages store them (04 line 273, 07 line 117), and the table referred to
RefColumn(table) ==
    CASE table \in {"competitors", "review_analysis", "differentiation_ideas"} -> PROJECT_ID_COL
      [] table = "employee_feedback" -> EMPLOYEE_ID_COL
      [] OTHER -> <<>>
RefTable(table) ==
    CASE table \in {"competitors", "review_analysis", "differentiation_ideas"} -> "projects"
      [] table = "employee_feedback" -> "employee_personas"
      [] OTHER -> ""

HasColumn(table, col) == col = ID_COL \/ (col # <<>> /\ col = RefColumn(table))

Row(id, ref, v) == [id |-> id, ref |-> ref, v |-> v]
NoRef == <<>>

\* the rows of a table that a filter selects
Selected(d, table, col, val) ==
    IF col = ID_COL THEN {r \in d[table] : r.id = val}
    ELSE {r \in d[table] : r.ref = <<col, val>>}

\* the rows of other tables that refer to one of the given rows of a table
Referring(d, table, gone) ==
    [t \in Tables |->
        IF RefTable(t) = table
        THEN {r \in d[t] : \E g \in gone : r.ref = <<RefColumn(t), g.id>>}
        ELSE {}]

\* a delete request for the given rows of a table: the database after it,
\* or "refused" when a row that refers to one of them forbids it
DbDelete(d, table, gone) ==
    IF fk = "restrict" /\ \E t \in Tables : Referring(d, table, gone)[t] # {}
    THEN [ok |-> FALSE, db |-> d]
    ELSE IF fk = "cascade"
    THEN [ok |-> TRUE,
          db |-> [t \in Tables |-> (d[t] \ Referring(d, table, gone)[t]) \ (IF t = table THEN gone ELSE {})]]
    ELSE [ok |-> TRUE, db |-> [d EXCEPT ![table] = @ \ gone]]

\* an insert request: refused for an id that is taken, a column that the
\* table does not have, or a reference that the database checks and that
\* has no target
InsertRefused(d, table, row) ==
    \/ \E r \in d[table] : r.id = row.id
    \/ row.ref # NoRef /\ ~HasColumn(table, row.ref[1])
    \/ /\ fk # "none"
       /\ row.ref # NoRef
       /\ \A p \in d[RefTable(table)] : p.id # row.ref[2]

Request(table, verb, col, val) == [table |-> table, verb |-> verb, col |-> col, val |-> val]

\* what an operation gives back
RetNone == <<"None">>
RetBool(b) == <<"bool", b>>
RetInt(n) == <<"int", n>>
RetRow(r) == <<"row", r>>
RetRows(s) == <<"rows", s>>

Done(name, data_type, id, ret) ==
    [name |-> name, data_type |-> data_type, id |-> id, ret |-> ret, raised |-> FALSE, shown |-> <<>>]

\* lines 62-73 and alike: the operation ends before any request
Disabled(data_type) == ~client \/ GetTableName(data_type) = ""

\* the data types, the ids, the rows and the filters that the operations
\* are called with; is_none: the data given is None
DataTypes == DOMAIN TABLE_MAPPING \cup {POSITIONING}
RowIds == {"p1", "p2", "c1", "e1", "x"}
NoneData == <<"None">>
NewRows ==
    {Row(i, r, 0) : i \in {"", "c1"}, r \in {NoRef, <<PROJECT_ID_COL, "p1">>, <<EMPLOYEE_ID_COL, "e1">>}}
NoFilter == <<>>
Filters == {NoFilter, <<PROJECT_ID_COL, "p1">>, <<EMPLOYEE_ID_COL, "e1">>}

\* the stores that an operation starts from
EmptyStore == [t \in Tables |-> {}]
FullStore ==
    [t \in Tables |->
        CASE t = "projects" -> {Row("p1", NoRef, 0), Row("p2", NoRef, 0)}
          [] t = "competitors" -> {Row("c1", <<PROJECT_ID_COL, "p1">>, 0), Row("c2", <<PROJECT_ID_COL, "p2">>, 0)}
          [] t = "review_analysis" -> {Row("r1", <<PROJECT_ID_COL, "p1">>, 0)}
          [] t = "differentiation_ideas" -> {Row("i1", <<PROJECT_ID_COL, "p1">>, 0)}
          [] t = "employee_personas" -> {Row("e1", NoRef, 0)}
          [] t = "employee_feedback" -> {Row("f1", <<EMPLOYEE_ID_COL, "e1">>, 0)}
          [] OTHER -> {}]
Stores == {EmptyStore, FullStore, [FullStore EXCEPT !["review_analysis"] = {}, !["employee_feedback"] = {}]}

StoreInit ==
    /\ response_text = <<>>
    /\ json_str = <<>>
    /\ pc = "idle"
    /\ outcome = NoOutcome
    /\ attempts = <<>>
    /\ remembered = NoCall
    /\ PageIdle
    /\ RetryIdle
    /\ PromptsIdle
    /\ ManagerIdle
    /\ SessionIdle
    /\ client \in BOOLEAN
    /\ fk \in {"none", "cascade", "restrict"}
    /\ db \in Stores
    /\ before = db
    /\ op = NoOp
    /\ db_calls = <<>>

\* uuid.uuid4(): an id that no row has
NewId(n) == IF n = 1 THEN "n1" ELSE "n2"

\* lines 60-103: create
Create ==
    /\ op = NoOp
    /\ \E data_type \in DataTypes, data \in NewRows, is_none \in BOOLEAN :
          IF ~client \/ GetTableName(data_type) = ""
          THEN /\ op' = [Done("create", data_type, "", RetNone) EXCEPT !.shown = <<"error">>]
               /\ UNCHANGED <<db, db_calls>>
          ELSE IF is_none
          THEN /\ op' = [Done("create", data_type, "", RetNone) EXCEPT !.raised = TRUE]
               /\ UNCHANGED <<db, db_calls>>
          ELSE LET table == GetTableName(data_type)
                   row == IF data.id = "" THEN [data EXCEPT !.id = NewId(1)] ELSE data
               IN  /\ db_calls' = <<Request(table, "insert", ID_COL, row.id)>>
                   /\ \/ /\ ~InsertRefused(db, table, row)
                         /\ db' = [db EXCEPT ![table] = @ \cup {row}]
                         /\ \/ op' = Done("create", data_type, "", RetRow(row))
                            \/ op' = [Done("create", data_type, "", RetNone) EXCEPT !.shown = <<"error">>]
                      \/ /\ db' = db
                         /\ op' = [Done("create", data_type, "", RetNone) EXCEPT !.shown = <<"error">>]
    /\ UNCHANGED <<client, fk, before>>
    /\ UNCHANGED besides_store

\* lines 105-121: get
Get ==
    /\ op = NoOp
    /\ \E data_type \in DataTypes, id \in RowIds :
          IF ~client \/ GetTableName(data_type) = ""
          THEN op' = Done("get", data_type, id, RetNone) /\ db_calls' = db_calls
          ELSE LET table == GetTableName(data_type)
               IN  /\ db_calls' = <<Request(table, "select", ID_COL, id)>>
                   /\ \/ /\ Selected(db, table, ID_COL, id) # {}
                         /\ \E r \in Selected(db, table, ID_COL, id) : op' = Done("get", data_type, id, RetRow(r))
                      \/ op' = Done("get", data_type, id, RetNone)
    /\ UNCHANGED <<client, fk, db, before>>
    /\ UNCHANGED besides_store

\* lines 123-141: update
Update ==
    /\ op = NoOp
    /\ \E data_type \in DataTypes, id \in RowIds, data \in {<<"v", 1>>}, is_none \in BOOLEAN :
          IF ~client \/ GetTableName(data_type) = ""
          THEN /\ op' = Done("update", data_type, id, RetNone)
               /\ UNCHANGED <<db, db_calls>>
          ELSE IF is_none
          THEN /\ op' = [Done("update", data_type, id, RetNone) EXCEPT !.raised = TRUE]
               /\ UNCHANGED <<db, db_calls>>
          ELSE LET table == GetTableName(data_type)
                   hit == Selected(db, table, ID_COL, id)
               IN  /\ db_calls' = <<Request(table, "update", ID_COL, id)>>
                   /\ \/ /\ hit # {}
                         /\ db' = [db EXCEPT ![table] = (@ \ hit) \cup {[r EXCEPT !.v = data[2]] : r \in hit}]
                         /\ \E r \in hit : op' = Done("update", data_type, id, RetRow([r EXCEPT !.v = data[2]]))
                      \/ /\ db' = db
                         /\ op' = Done("update", data_type, id, RetNone)
    /\ UNCHANGED <<client, fk, before>>
    /\ UNCHANGED besides_store

\* lines 162-176: _delete_children, one delete request for each child type
\* of the parent type, in the order of DATA_HIERARCHY; a request that fails
\* is printed and the loop goes on.  failing: the tables whose request the
\* network fails.
RECURSIVE DeleteChildren(_, _, _, _, _)
DeleteChildren(d, kids, parent_type, parent_id, failing) ==
    IF kids = <<>> THEN [db |-> d, calls |-> <<>>]
    ELSE IF DATA_HIERARCHY[Head(kids)] # parent_type \/ GetTableName(Head(kids)) = ""
    THEN DeleteChildren(d, Tail(kids), parent_type, parent_id, failing)
    ELSE Bind(GetTableName(Head(kids)), LAMBDA table :
         Bind(IF table \in failing \/ ~HasColumn(table, ParentKey(parent_type))
              THEN d
              ELSE Bind(DbDelete(d, table, Selected(d, table, ParentKey(parent_type), parent_id)),
                        LAMBDA res : res.db),
              LAMBDA d1 :
         Bind(DeleteChildren(d1, Tail(kids), parent_type, parent_id, failing), LAMBDA rest :
              [db |-> rest.db,
               calls |-> <<Request(table, "delete", ParentKey(parent_type), parent_id)>> \o rest.calls])))

\* lines 143-160: delete
Delete ==
    /\ op = NoOp
    /\ \E data_type \in DataTypes, id \in RowIds :
          IF ~client \/ GetTableName(data_type) = ""
          THEN /\ op' = Done("delete", data_type, id, RetBool(FALSE))
               /\ UNCHANGED <<db, db_calls>>
          ELSE \E failing \in SUBSET Tables, parent_fails \in BOOLEAN :
               LET table == GetTableName(data_type)
                   kids == DeleteChildren(db, ChildTypes, data_type, id, failing)
                   res == DbDelete(kids.db, table, Selected(kids.db, table, ID_COL, id))
               IN  /\ \A t \in failing : \E i \in DOMAIN kids.calls : kids.calls[i].table = t
                   /\ db_calls' = kids.calls \o <<Request(table, "delete", ID_COL, id)>>
                   /\ IF parent_fails \/ ~res.ok
                      THEN /\ db' = kids.db
                           /\ op' = Done("delete", data_type, id, RetBool(FALSE))
                      ELSE /\ db' = res.db
                           /\ op' = Done("delete", data_type, id, RetBool(TRUE))
    /\ UNCHANGED <<client, fk, before>>
    /\ UNCHANGED besides_store

\* lines 178-197: list
List ==
    /\ op = NoOp
    /\ \E data_type \in DataTypes, filters \in Filters :
          IF ~client \/ GetTableName(data_type) = ""
          THEN op' = Done("list", data_type, "", RetRows({})) /\ db_calls' = db_calls
          ELSE LET table == GetTableName(data_type)
               IN  IF filters = NoFilter
                   THEN /\ db_calls' = <<Request(table, "select", <<>>, "")>>
                        /\ op' \in {Done("list", data_type, "", RetRows(db[table])),
                                    Done("list", data_type, "", RetRows({}))}
                   ELSE /\ db_calls' = <<Request(table, "select", filters[1], filters[2])>>
                        /\ \/ /\ HasColumn(table, filters[1])
                              /\ op' = Done("list", data_type, "",
                                            RetRows(Selected(db, table, filters[1], filters[2])))
                           \/ op' = Done("list", data_type, "", RetRows({}))
    /\ UNCHANGED <<client, fk, db, before>>
    /\ UNCHANGED besides_store

\* lines 225-244: count
CountOp ==
    /\ op = NoOp
    /\ \E data_type \in DataTypes, filters \in Filters :
          IF ~client \/ GetTableName(data_type) = ""
          THEN op' = Done("count", data_type, "", RetInt(0)) /\ db_calls' = db_calls
          ELSE LET table == GetTableName(data_type)
               IN  IF filters = NoFilter
                   THEN /\ db_calls' = <<Request(table, "select", <<>>, "")>>
                        /\ op' \in {Done("count", data_type, "", RetInt(Cardinality(db[table]))),
                                    Done("count", data_type, "", RetInt(0))}
                   ELSE /\ db_calls' = <<Request(table, "select", filters[1], filters[2])>>
                        /\ \/ /\ HasColumn(table, filters[1])
                              /\ op' = Done("count", data_type, "",
                                            RetInt(Cardinality(Selected(db, table, filters[1], filters[2]))))
                           \/ op' = Done("count", data_type, "", RetInt(0))
    /\ UNCHANGED <<client, fk, db, before>>
    /\ UNCHANGED besides_store

\* lines 246-259: exists
Exists ==
    /\ op = NoOp
    /\ \E data_type \in DataTypes, id \in RowIds :
          IF ~client \/ GetTableName(data_type) = ""
          THEN op' = Done("exists", data_type, id, RetBool(FALSE)) /\ db_calls' = db_calls
          ELSE LET table == GetTableName(data_type)
               IN  /\ db_calls' = <<Request(table, "select", ID_COL, id)>>
                   /\ op' \in {Done("exists", data_type, id, RetBool(Selected(db, table, ID_COL, id) # {})),
                               Done("exists", data_type, id, RetBool(FALSE))}
    /\ UNCHANGED <<client, fk, db, before>>
    /\ UNCHANGED besides_store

\* the lists of rows and of ids that the bulk operations are called with
ItemLists ==
    {<<>>, <<Row("", <<PROJECT_ID_COL, "p1">>, 0)>>,
     <<Row("", <<PROJECT_ID_COL, "p1">>, 0), Row("c1", <<PROJECT_ID_COL, "p2">>, 0)>>}
IdLists == {NoneData, <<>>, <<"c1">>, <<"p1", "x">>}

\* lines 273-278: the items with an id each
WithIds(items) ==
    [i \in DOMAIN items |-> IF items[i].id = "" THEN [items[i] EXCEPT !.id = NewId(i)] ELSE items[i]]

\* lines 261-284: bulk_create
BulkCreate ==
    /\ op = NoOp
    /\ \E data_type \in DataTypes, items \in ItemLists, is_none \in BOOLEAN :
          IF ~client \/ is_none \/ items = <<>> \/ GetTableName(data_type) = ""
          THEN /\ op' = Done("bulk_create", data_type, "", RetRows({}))
               /\ UNCHANGED <<db, db_calls>>
          ELSE LET table == GetTableName(data_type)
                   new == {WithIds(items)[i] : i \in DOMAIN items}
               IN  /\ db_calls' = <<Request(table, "insert", <<>>, "")>>
                   /\ \/ /\ \A r \in new : ~InsertRefused(db, table, r)
                         /\ db' = [db EXCEPT ![table] = @ \cup new]
                         /\ op' = Done("bulk_create", data_type, "", RetRows(new))
                      \/ /\ db' = db
                         /\ op' = Done("bulk_create", data_type, "", RetRows({}))
    /\ UNCHANGED <<client, fk, before>>
    /\ UNCHANGED besides_store

\* lines 286-300: bulk_delete
BulkDelete ==
    /\ op = NoOp
    /\ \E data_type \in DataTypes, ids \in IdLists :
          IF ~client \/ ids \in {NoneData, <<>>} \/ GetTableName(data_type) = ""
          THEN /\ op' = Done("bulk_delete", data_type, "", RetInt(0))
               /\ UNCHANGED <<db, db_calls>>
          ELSE LET table == GetTableName(data_type)
                   gone == {r \in db[table] : \E i \in DOMAIN ids : r.id = ids[i]}
                   res == DbDelete(db, table, gone)
               IN  /\ db_calls' = <<Request(table, "delete", ID_COL, "")>>
                   /\ \/ /\ res.ok
                         /\ db' = res.db
                         /\ op' = Done("bulk_delete", data_type, "", RetInt(Cardinality(gone)))
                      \/ /\ db' = db
                         /\ op' = Done("bulk_delete", data_type, "", RetInt(0))
    /\ UNCHANGED <<client, fk, before>>
    /\ UNCHANGED besides_store

StoreNext ==
    \/ Create
    \/ Get
    \/ Update
    \/ Delete
    \/ List
    \/ CountOp
    \/ Exists
    \/ BulkCreate
    \/ BulkDelete

StoreSpec == StoreInit /\ [][StoreNext]_vars

(***************************************************************************)
(* PromptManager (src/modules/prompt_manager.py): save, _create_version,   *)
(* restore_version and reset_to_default on the files of a prompts          *)
(* directory.  A version file is named by the prompt and by the time of    *)
(* its creation, to the second (lines 73-74).                              *)
(***************************************************************************)
MaxClock == 1

PromptContents == {"A", "B"}

\* lines 141-149: the prompts that have a default, "" for the others
DefaultPrompt(prompt_name) == IF prompt_name = "extract" THEN "D" ELSE ""

\* line 74: the version file of a prompt at a time
VersionFile(prompt_name, timestamp, content) ==
    [name |-> prompt_name, timestamp |-> timestamp, content |-> content]

VersionFiles(vs, prompt_name, timestamp) ==
    {v \in vs : v.name = prompt_name /\ v.timestamp = timestamp}

\* lines 69-75: _create_version copies the prompt file, if there is one,
\* to the version file of this second, over the file of that name
CreateVersion(vs, cur, prompt_name) ==
    IF cur[prompt_name] = "" THEN vs
    ELSE (vs \ VersionFiles(vs, prompt_name, now)) \cup {VersionFile(prompt_name, now, cur[prompt_name])}

\* (history) the content that a write replaces
Overwriting(prompt_name) ==
    [overwritten EXCEPT ![prompt_name] = IF current[prompt_name] = "" THEN @ ELSE @ \cup {current[prompt_name]}]

PromptInit ==
    /\ response_text = <<>>
    /\ json_str = <<>>
    /\ pc = "idle"
    /\ outcome = NoOutcome
    /\ attempts = <<>>
    /\ remembered = NoCall
    /\ PageIdle
    /\ ServicesIdle

\* the clock
Tick ==
    /\ now < MaxClock
    /\ now' = now + 1
    /\ UNCHANGED <<current, versions, overwritten, pop>>
    /\ UNCHANGED besides_prompts

\* lines 58-67: save(prompt_name, content), with a version
Save ==
    /\ \E prompt_name \in PromptNames, content \in PromptContents :
          /\ versions' = CreateVersion(versions, current, prompt_name)
          /\ current' = [current EXCEPT ![prompt_name] = content]
          /\ overwritten' = Overwriting(prompt_name)
          /\ pop' = [name |-> "save", prompt |-> prompt_name, ret |-> TRUE, content |-> content,
                     replaced |-> current[prompt_name]]
    /\ UNCHANGED now
    /\ UNCHANGED besides_prompts

\* lines 133-139: reset_to_default(prompt_name)
ResetToDefault ==
    /\ \E prompt_name \in PromptNames :
          IF DefaultPrompt(prompt_name) # ""
          THEN /\ versions' = CreateVersion(versions, current, prompt_name)
               /\ current' = [current EXCEPT ![prompt_name] = DefaultPrompt(prompt_name)]
               /\ overwritten' = Overwriting(prompt_name)
               /\ pop' = [name |-> "reset", prompt |-> prompt_name, ret |-> TRUE,
                          content |-> DefaultPrompt(prompt_name), replaced |-> current[prompt_name]]
          ELSE /\ pop' = [name |-> "reset", prompt |-> prompt_name, ret |-> FALSE, content |-> "",
                          replaced |-> current[prompt_name]]
               /\ UNCHANGED <<current, versions, overwritten>>
    /\ UNCHANGED now
    /\ UNCHANGED besides_prompts

\* lines 114-126: restore_version(prompt_name, version_filename), for a
\* file name of that prompt (05 lines 114-123 offer these); the version is
\* read after the current content was copied to the history
RestoreVersion ==
    /\ \E prompt_name \in PromptNames, timestamp \in 0..MaxClock :
          IF VersionFiles(versions, prompt_name, timestamp) = {}
          THEN /\ pop' = [name |-> "restore", prompt |-> prompt_name, ret |-> FALSE, content |-> "",
                          replaced |-> current[prompt_name]]
               /\ UNCHANGED <<current, versions, overwritten>>
          ELSE /\ versions' = CreateVersion(versions, current, prompt_name)
               /\ \E v \in VersionFiles(versions', prompt_name, timestamp) :
                     current' = [current EXCEPT ![prompt_name] = v.content]
               /\ overwritten' = Overwriting(prompt_name)
               /\ \E v \in VersionFiles(versions, prompt_name, timestamp) :
                     pop' = [name |-> "restore", prompt |-> prompt_name, ret |-> TRUE,
                             content |-> v.content, replaced |-> current[prompt_name]]
    /\ UNCHANGED now
    /\ UNCHANGED besides_prompts

PromptNext ==
    \/ Tick
    \/ Save
    \/ ResetToDefault
    \/ RestoreVersion

PromptSpec == PromptInit /\ [][PromptNext]_vars

(***************************************************************************)
(* SettingsManager (src/modules/settings_manager.py): get, set, the model  *)
(* selection, _save and _load.  A key is given as the list of its parts    *)
(* (key.split('.')); the providers and tasks of the model hold no dot.     *)
(* The request to the database succeeds or fails, each time anew; writing  *)
(* and reading settings.json succeed.                                      *)
(***************************************************************************)
Providers == {"google", "xai"}
ModelNames == {"m1"}
TaskNames == {"extract"}

\* d[key] = value
SWith(f, key, value) == [k \in DOMAIN f \cup {key} |-> IF k = key THEN value ELSE f[k]]

\* bool(value)
STruthy(value) ==
    IF value[1] = "dict" THEN DOMAIN value[2] # {} ELSE value[2] \notin {"None", ""}

\* lines 99-108: get; KeyError and TypeError give the default
RECURSIVE GetPath(_, _, _)
GetPath(value, keys, default) ==
    IF keys = <<>> THEN value
    ELSE IF value[1] # "dict" THEN default
    ELSE IF Head(keys) \notin DOMAIN value[2] THEN default
    ELSE GetPath(value[2][Head(keys)], Tail(keys), default)

\* lines 110-118: set, before the save; a part of the key that leads to a
\* value that is no dict raises TypeError
RECURSIVE SetPath(_, _, _)
SetPath(target, keys, value) ==
    IF target[1] # "dict" THEN [err |-> TypeError, tree |-> target]
    ELSE IF Len(keys) = 1 THEN [err |-> "", tree |-> SDict(SWith(target[2], keys[1], value))]
    ELSE Bind(SetPath(IF Head(keys) \in DOMAIN target[2] THEN target[2][Head(keys)] ELSE SDict(<<>>),
                      Tail(keys), value),
              LAMBDA r : [err |-> r.err, tree |-> SDict(SWith(target[2], Head(keys), r.tree))])

\* lines 133-135: get_provider
get_provider(s) == GetPath(s, <<"ai", "provider">>, SLeaf("google"))

\* (mutant of get_model) the task's model is not looked at
get_model_ProviderOnly(s, task) ==
    GetPath(s, <<"ai", "models", get_provider(s)[2]>>, SLeaf("gemini-2.0-flash"))

\* lines 141-148: get_model; task "" stands for no task
get_model(s, task) ==
    IF task # "" /\ STruthy(GetPath(s, <<"ai", "task_models", task>>, SNone))
    THEN GetPath(s, <<"ai", "task_models", task>>, SNone)
    ELSE GetPath(s, <<"ai", "models", get_provider(s)[2]>>, SLeaf("gemini-2.0-flash"))

\* lines 36-63: _load; the database's settings when the request gives
\* some, else the local file, else the defaults
Loaded(remote_ok) ==
    IF remote_ok /\ remote # NoSettings /\ STruthy(remote) THEN remote
    ELSE IF local_file # NoSettings THEN local_file
    ELSE DefaultSettings

SettingsInit ==
    /\ response_text = <<>>
    /\ json_str = <<>>
    /\ pc = "idle"
    /\ outcome = NoOutcome
    /\ attempts = <<>>
    /\ remembered = NoCall
    /\ PageIdle
    /\ ServicesIdle

\* lines 110-119 and 82-97: set(key, value) and the save, to the database
\* or, when that fails, to the local file
SetAndSave(name, args, keys, value) ==
    /\ settings' = SetPath(settings, keys, value).tree
    /\ IF SetPath(settings, keys, value).err # ""
       THEN /\ sop' = [name |-> name, args |-> args, ret |-> SNone, raised |-> TRUE, before |-> settings]
            /\ UNCHANGED <<remote, local_file, last_set>>
       ELSE /\ sop' = [name |-> name, args |-> args, ret |-> SNone, raised |-> FALSE, before |-> settings]
            /\ last_set' = [key |-> keys, value |-> value]
            /\ \/ remote' = settings' /\ local_file' = local_file
               \/ remote' = remote /\ local_file' = settings'

\* lines 137-139: set_provider
SetProvider ==
    /\ \E provider \in Providers :
          SetAndSave("set_provider", <<provider>>, <<"ai", "provider">>, SLeaf(provider))
    /\ UNCHANGED besides_manager

\* lines 150-154: set_model; provider "" stands for no provider given
SetModel ==
    /\ \E model \in ModelNames, provider \in Providers \cup {""} :
          SetAndSave("set_model", <<model, provider>>,
                     <<"ai", "models", IF provider = "" THEN get_provider(settings)[2] ELSE provider>>,
                     SLeaf(model))
    /\ UNCHANGED besides_manager

\* lines 156-158: set_task_model; the model may be None
SetTaskModel ==
    /\ \E task \in TaskNames, model \in ModelNames \cup {"None"} :
          SetAndSave("set_task_model", <<task, model>>, <<"ai", "task_models", task>>, SLeaf(model))
    /\ UNCHANGED besides_manager

\* lines 141-148: get_model is asked
GetModel ==
    /\ \E task \in TaskNames \cup {""} :
          sop' = [name |-> "get_model", args |-> <<task>>, ret |-> get_model(settings, task),
                  raised |-> FALSE, before |-> settings]
    /\ UNCHANGED <<settings, remote, local_file, last_set>>
    /\ UNCHANGED besides_manager

\* lines 17-34: a new SettingsManager is constructed
Reload ==
    /\ \E remote_ok \in BOOLEAN :
          /\ settings' = Loaded(remote_ok)
          /\ sop' = [name |-> "reload", args |-> <<>>, ret |-> SNone, raised |-> FALSE, before |-> settings]
    /\ UNCHANGED <<remote, local_file, last_set>>
    /\ UNCHANGED besides_manager

SettingsNext ==
    \/ SetProvider
    \/ SetModel
    \/ SetTaskModel
    \/ GetModel
    \/ Reload

SettingsSpec == SettingsInit /\ [][SettingsNext]_vars

(***************************************************************************)
(* The selection of ideas on the differentiation page (src/pages/04).  A   *)
(* step is one run of the script, started by one thing the user does: a    *)
(* change of the category filter, a click on a checkbox, on the            *)
(* regeneration button or on the confirmation button.  The difficulty      *)
(* filter stays at its first option; an answer that cannot be read stops   *)
(* the script before anything changes.  Ids are numbers here (uuid4 in the *)
(* source): an id is never given twice.                                    *)
(***************************************************************************)
MaxIdeaId == 3
MaxNew == 1
IdeaIds == 1..MaxIdeaId
Categories == {<<"A">>, <<"B">>}

\* 04 line 201: the options of the category selectbox
CategoryOptions ==
    {ALL_CATEGORIES, <<"A", " ", "(", "d", ")">>, <<"B", " ", "(", "s", ")">>, <<"C", " ", "(", "i", ")">>}

\* line 300: category_filter.split(" ")[0]
FirstWord(s) ==
    IF \E i \in 1..Len(s) : s[i] = " "
    THEN SubSeq(s, 1, Min({i \in 1..Len(s) : s[i] = " "}) - 1)
    ELSE s

\* lines 290 and 299-301: the ids of the stored ideas that pass the filter
Filtered(ideas, option) ==
    {id \in DOMAIN ideas : option = ALL_CATEGORIES \/ ideas[id] = FirstWord(option)}

\* line 382: what st.checkbox returns for an idea: the widget's value when
\* the last run drew it, else the value argument (is_selected, line 324)
CheckboxValue(id, widgets, selected) ==
    IF id \in DOMAIN widgets THEN widgets[id] ELSE id \in selected

\* lines 318-386: selected_ideas after the loop over the listed ideas
AfterCheckboxes(ideas, option, widgets, selected) ==
    (selected \ Filtered(ideas, option))
        \cup {id \in Filtered(ideas, option) : CheckboxValue(id, widgets, selected)}

\* lines 290-447: the script from the list of ideas to the selected count
RunPage(ideas, option, widgets) ==
    /\ category_filter' = option
    /\ listed' = Filtered(ideas, option)
    /\ selected_ideas' = AfterCheckboxes(ideas, option, widgets, selected_ideas)
    /\ widget_state' = [id \in Filtered(ideas, option) |-> CheckboxValue(id, widgets, selected_ideas)]
    /\ selected_count' = Cardinality(AfterCheckboxes(ideas, option, widgets, selected_ideas))

\* the stored ideas a project starts with
InitialIdeas == {<<>>, <<<<"A">>, <<"B">>>>}

\* the page has been opened once
SelectInit ==
    /\ response_text = <<>>
    /\ json_str = <<>>
    /\ pc = "idle"
    /\ outcome = NoOutcome
    /\ attempts = <<>>
    /\ remembered = NoCall
    /\ PageIdle
    /\ RetryIdle
    /\ StoreIdle
    /\ PromptsIdle
    /\ ManagerIdle
    /\ project_ideas \in InitialIdeas
    /\ next_id = Len(project_ideas)
    /\ category_filter = ALL_CATEGORIES
    /\ listed = DOMAIN project_ideas
    /\ widget_state = [id \in DOMAIN project_ideas |-> FALSE]
    /\ selected_ideas = {}
    /\ selected_count = 0
    /\ confirmed = {}

\* lines 199-204: another category is chosen
ChangeFilter ==
    /\ \E option \in CategoryOptions \ {category_filter} :
          RunPage(project_ideas, option, widget_state)
    /\ UNCHANGED <<project_ideas, next_id, confirmed>>
    /\ UNCHANGED besides_session

\* lines 382-386: the checkbox of a listed idea is clicked
ToggleIdea ==
    /\ \E id \in DOMAIN widget_state :
          RunPage(project_ideas, category_filter, [widget_state EXCEPT ![id] = ~@])
    /\ UNCHANGED <<project_ideas, next_id, confirmed>>
    /\ UNCHANGED besides_session

\* the stored ideas after lines 267-276: each stored idea is deleted unless
\* its delete fails, each idea of the answer is stored with a new id unless
\* its create fails
Regenerated(kept, made, categories) ==
    [id \in kept \cup made |-> IF id \in made THEN categories[id] ELSE project_ideas[id]]

\* lines 223-278, then 290-447: the regeneration button is clicked
RegenerateIdeas ==
    /\ \E n \in 0..MaxNew :
          /\ next_id + n <= MaxIdeaId
          /\ next_id' = next_id + n
          /\ \E categories \in [(next_id + 1)..(next_id + n) -> Categories],
                kept \in SUBSET DOMAIN project_ideas,
                made \in SUBSET ((next_id + 1)..(next_id + n)) :
                /\ project_ideas' = Regenerated(kept, made, categories)
                /\ RunPage(Regenerated(kept, made, categories), category_filter, widget_state)
    /\ UNCHANGED confirmed
    /\ UNCHANGED besides_session

\* lines 461-468: the confirmation button, enabled when the selected count
\* is not 0, is clicked: the listed ideas are written with their selection
ConfirmSelection ==
    /\ selected_count # 0
    /\ RunPage(project_ideas, category_filter, widget_state)
    /\ confirmed' = {id \in Filtered(project_ideas, category_filter) :
                        id \in AfterCheckboxes(project_ideas, category_filter, widget_state, selected_ideas)}
    /\ UNCHANGED <<project_ideas, next_id>>
    /\ UNCHANGED besides_session

SelectNext ==
    \/ ChangeFilter
    \/ ToggleIdea
    \/ RegenerateIdeas
    \/ ConfirmSelection

SelectSpec == SelectInit /\ [][SelectNext]_vars

(***************************************************************************)
(* The steps compute parse_json_response                                   *)
(***************************************************************************)
StepsComputeTheCall == pc = "done" => outcome = parse_json_response(response_text)

\* two outcomes are the same: the same value, or the same exception
SameOutcome(a, b) ==
    /\ a.kind = b.kind
    /\ a.kind = "return" => a.value = b.value
    /\ a.kind = "raise" => a.exc = b.exc /\ a.msg = b.msg

HasFence(text) == \E i \in 1..Len(text) : IsFenceAt(text, i)

(***************************************************************************)
(* C1  Round trip: for every mapping or sequence v, the call on            *)
(* json.dumps(v) returns a value equal to v.                               *)
(***************************************************************************)
C1_RoundTrip ==
    pc = "done" =>
        \A d \in Docs : response_text = json_dumps(d) => outcome = Return(ValueOf(d))

(***************************************************************************)
(* C2  Fence tolerance: for every valid JSON text j, the call on j inside  *)
(* a fenced block, tagged json or bare, ends as the call on j itself.      *)
(***************************************************************************)
C2_FenceTolerance ==
    pc = "done" =>
        \A j \in DocTexts \cup ScalarTexts :
            response_text \in {FenceJson(j), FenceBare(j)}
                => SameOutcome(outcome, parse_json_response(j))

(***************************************************************************)
(* C3  Prose tolerance, as claimed: prose before and after a mapping or    *)
(* sequence j, with brackets only in balanced pairs, does not change what  *)
(* the call returns for j.                                                 *)
(***************************************************************************)
Wrapped(p, d, q) == p \o json_dumps(d) \o q

C3_ProseTolerance ==
    pc = "done" =>
        \A p \in Prose, q \in Prose :
            \A d \in SmallDocs :
                response_text = Wrapped(p, d, q)
                    => SameOutcome(outcome, parse_json_response(json_dumps(d)))

(***************************************************************************)
(* C3  as amended: prose that holds no bracket, no brace and no backquote  *)
(* does not change what the call returns for j.                            *)
(***************************************************************************)
C3_CleanProseTolerance ==
    pc = "done" =>
        \A p \in CleanProse, q \in CleanProse :
            \A d \in SmallDocs :
                response_text = Wrapped(p, d, q)
                    => SameOutcome(outcome, parse_json_response(json_dumps(d)))

C3_Witness ==
    /\ pc = "done"
    /\ outcome.kind = "return"
    /\ IsMapping(outcome.value)
    /\ \E p \in CleanProse \ {<<>>}, q \in CleanProse \ {<<>>} :
          \E d \in SmallDocs : Len(d[2]) = 1 /\ response_text = Wrapped(p, d, q)

(***************************************************************************)
(* C4  Truncation repair, as claimed: for {"ideas": [e1, ..., en,  the     *)
(* call returns the mapping whose "ideas" are exactly e1 .. en (stated     *)
(* here for the texts that hold no fence, the plain case of the claim).    *)
(***************************************************************************)
Repaired(elems) ==
    VDict(<< <<VStr(IdeasKey), VList([i \in DOMAIN elems |-> ValueOf(elems[i])])>> >>)

HasBraceString(d) ==
    /\ d[1] = "obj"
    /\ \E i \in DOMAIN d[2] :
          LET v == d[2][i][2]
          IN  v[1] = "str" /\ \E k \in DOMAIN v[2] : v[2][k] = "}"

C5_EmbeddedBraces ==
    pc = "done" =>
        \A p \in CleanProse, q \in CleanProse :
            \A d \in SmallDocs :
                HasBraceString(d) /\ response_text = Wrapped(p, d, q)
                    => outcome = Return(ValueOf(d))

C7_GarbageFails ==
    pc = "done" /\ response_text # <<>>
                /\ find(response_text, "{") = 0 /\ find(response_text, "[") = 0
        => outcome.kind = "raise" /\ outcome.exc = ValueError /\ outcome.msg = FailedMsg

C9_ResultShape ==
    pc = "done" /\ outcome.kind = "return"
        => IsMapping(outcome.value) \/ IsSequence(outcome.value)

(***************************************************************************)
(* C10  No fabrication: a returned value is the parse, strict or           *)
(* permissive, of the candidate, and the candidate is one contiguous span  *)
(* of the input text, character for character.  (Hence a text none of      *)
(* whose spans parses gives no value.)  A call that gives no value and     *)
(* ends with the unparsable-response error had a candidate that neither    *)
(* parser accepts.                                                         *)
(***************************************************************************)
IsSpanOf(span, text) ==
    \/ span = <<>>
    \/ \E i \in 1..Len(text) :
          i + Len(span) - 1 <= Len(text) /\ SubSeq(text, i, i + Len(span) - 1) = span

C10_NoFabrication ==
    pc = "done" =>
        /\ IsSpanOf(json_str, response_text)
        /\ outcome.kind = "return" =>
              LET strict == json_loads(json_str)
                  literal == literal_eval(json_str)
              IN  IF strict.err = "" THEN outcome.value = strict.v
                  ELSE literal.err = "" /\ outcome.value = literal.v
        /\ outcome.kind = "raise" /\ outcome.msg = FailedMsg =>
              json_loads(json_str).err # "" /\ literal_eval(json_str).err # ""

C10_Witness ==
    /\ pc = "done"
    /\ outcome.kind = "return"
    /\ json_str # <<>>
    /\ Len(json_str) < Len(response_text)
    /\ \E c \in DOMAIN json_str : json_str[c] = SP

(***************************************************************************)
(* C11  Multiple fenced blocks: for a text of two fenced blocks, each      *)
(* holding a JSON value, the candidate is the interior of the first block  *)
(* and the call returns the value of the first block.                      *)
(***************************************************************************)
C11_FirstBlock ==
    pc = "done" =>
        \A a \in PairDocs, b \in PairDocs, sep \in BlockSeparators :
            response_text = FenceJson(json_dumps(a)) \o sep \o FenceJson(json_dumps(b))
                => json_str = json_dumps(a) /\ outcome = Return(ValueOf(a))

(***************************************************************************)
(* C12  Permissive fallback: a document text whose strings are written     *)
(* with single quotes (which alone makes the strict parser reject it)      *)
(* gives the value that the text with double quotes gives.                 *)
(***************************************************************************)
C12_PermissiveFallback ==
    pc = "done" =>
        \A t \in QuasiTexts :
            SingleQuoted(t) # t /\ response_text = SingleQuoted(t)
                => outcome.kind = "return" /\ outcome = parse_json_response(t)

(***************************************************************************)
(* C13  Closed error set: a call that returns no value raises ValueError,  *)
(* with the empty-input or the unparsable-response message.                *)
(***************************************************************************)
C13_ClosedErrorSet ==
    pc = "done" /\ outcome.kind # "return"
        => outcome.exc = ValueError /\ outcome.msg \in {EmptyMsg, FailedMsg}

(***************************************************************************)
(* C14  Diagnostic excerpt: when the text is not empty and no strategy     *)
(* gives a value, the error raised carries a prefix of the final candidate *)
(* (the stripped interior, slice or whole text), of at most 200            *)
(* characters.                                                             *)
(***************************************************************************)
IsPrefixOf(x, s) == Len(x) <= Len(s) /\ SubSeq(s, 1, Len(x)) = x

C14_Excerpt ==
    pc = "done" /\ response_text # <<>> /\ outcome.kind # "return" =>
        /\ outcome.msg = FailedMsg
        /\ json_str = strip(ExtractCandidate(response_text))
        /\ IsPrefixOf(outcome.excerpt, json_str)
        /\ Len(outcome.excerpt) <= 200

(***************************************************************************)
(* C16  Strategy order: json.loads is consulted before ast.literal_eval;   *)
(* when json.loads accepts the candidate its value is returned and         *)
(* ast.literal_eval is not consulted; the unparsable-response error is     *)
(* raised only after both were consulted and both rejected the candidate.  *)
(***************************************************************************)
C16_StrategyOrder ==
    /\ attempts \in {<<>>, <<"json.loads">>, <<"json.loads", "ast.literal_eval">>}
    /\ pc = "done" /\ attempts # <<>> /\ json_loads(json_str).err = "" =>
          /\ outcome = Return(json_loads(json_str).v)
          /\ attempts = <<"json.loads">>
    /\ pc = "done" /\ outcome.msg = FailedMsg =>
          /\ attempts = <<"json.loads", "ast.literal_eval">>
          /\ json_loads(json_str).err # ""
          /\ literal_eval(json_str).err # ""

\* a value given by the permissive parser after the strict one refused
C16_Witness ==
    /\ pc = "done"
    /\ outcome.kind = "return"
    /\ attempts = <<"json.loads", "ast.literal_eval">>

(***************************************************************************)
(* C17  Boundary detection without a fence: when the fence pattern does    *)
(* not match, the first of the brace and bracket openers in the text       *)
(* decides the kind; if the last closer of that kind lies after that       *)
(* opener, the candidate (before stripping) is the text from that opener   *)
(* to that closer, both included.                                          *)
(***************************************************************************)
IsOpener(c) == c \in {"{", "["}

C17_BoundaryDetection ==
    pc = "strip" /\ ~re_search(response_text).found =>
        \A o \in DOMAIN response_text, e \in DOMAIN response_text :
            /\ IsOpener(response_text[o])
            /\ \A j \in 1..(o - 1) : ~IsOpener(response_text[j])
            /\ response_text[e] = Closer(response_text[o])
            /\ \A j \in (e + 1)..Len(response_text) : response_text[j] # response_text[e]
            /\ e > o
            => json_str = SubSeq(response_text, o, e)

\* a bracket comes first, a brace follows, and the slice leaves text out
C17_Witness ==
    /\ pc = "strip"
    /\ ~re_search(response_text).found
    /\ find(response_text, "[") # 0
    /\ find(response_text, "[") < find(response_text, "{")
    /\ rfind(response_text, "]") < rfind(response_text, "}")
    /\ json_str = SubSeq(response_text, find(response_text, "["), rfind(response_text, "]"))

(***************************************************************************)
(* C18  Fence precedence: for a fenced block, tagged json or bare, that    *)
(* holds a JSON mapping or sequence, the candidate is the interior of the  *)
(* block and the value returned is that of the block, whatever text        *)
(* stands before it (brackets included) or after it (brackets and further  *)
(* fences included).                                                       *)
(***************************************************************************)
C18_FencePrecedence ==
    pc = "done" =>
        \A p \in OutsideBefore, q \in OutsideAfter, d \in PairDocs :
            response_text \in {p \o FenceJson(json_dumps(d)) \o q,
                               p \o FenceBare(json_dumps(d)) \o q}
                => json_str = json_dumps(d) /\ outcome = Return(ValueOf(d))

(***************************************************************************)
(* C19  The opener decision is final: when the fence pattern does not      *)
(* match and the last closer of the first opener's kind is absent or not   *)
(* after that opener, the candidate is the whole text, stripped, and the   *)
(* outcome is that of parsing it: no other span of the text is tried.      *)
(***************************************************************************)
NoSpan(text) ==
    /\ ~re_search(text).found
    /\ \E o \in DOMAIN text :
          /\ IsOpener(text[o])
          /\ \A j \in 1..(o - 1) : ~IsOpener(text[j])
          /\ \A e \in (o + 1)..Len(text) : text[e] # Closer(text[o])

C19_OpenerFinal ==
    pc \in {"strict", "literal", "fail", "done"} /\ NoSpan(response_text) =>
        /\ json_str = strip(response_text)
        /\ pc = "done" => outcome = ParseCandidate(strip(response_text))

\* an unclosed brace before a well-formed array: the array is not tried
C19_Witness ==
    /\ pc = "done"
    /\ NoSpan(response_text)
    /\ \E i \in 1..(Len(response_text) - 2) :
          response_text[i] = "{" /\ response_text[i + 1] = "[" /\ response_text[i + 2] = "]"
    /\ outcome.kind = "raise"

C21_CompetitorMerge ==
    at_click[1] = "extract" /\ fpc = "end" /\ parsed.kind = "return" /\ parsed.value[1] = "dict" =>
        IF at_click[2][1] = "dict" /\ DOMAIN at_click[2][2] # {}
        THEN /\ extracted_data[1] = "dict"
             /\ DOMAIN extracted_data[2] = DOMAIN at_click[2][2] \cup DOMAIN parsed.value[2]
             /\ \A k \in DOMAIN parsed.value[2] : extracted_data[2][k] = parsed.value[2][k]
             /\ \A k \in DOMAIN at_click[2][2] \ DOMAIN parsed.value[2] :
                   extracted_data[2][k] = at_click[2][2][k]
        ELSE extracted_data = parsed.value

(***************************************************************************)
(* C22  Idea regeneration replaces all: existing ideas of the project are  *)
(* deleted only after the AI response was extracted successfully, and      *)
(* when the flow reports success with N ideas, the ideas stored for the    *)
(* project are exactly the N ideas of the new response, each with          *)
(* project_id set and selected = false, and none of the previous ideas.    *)
(***************************************************************************)
ProjectIdKey == VStr(<<"p", "r", "o", "j", "e", "c", "t", "_", "i", "d">>)
SelectedKey == VStr(<<"s", "e", "l", "e", "c", "t", "e", "d">>)

\* the stored record is the idea of the response, of this project, unselected
IsStoredFormOf(row, idea) ==
    /\ row[1] = "dict"
    /\ row[2][ProjectIdKey] = PROJECT_ID
    /\ row[2][SelectedKey] = VConst("False")
    /\ \A k \in DOMAIN idea[2] \ {ProjectIdKey, SelectedKey} : row[2][k] = idea[2][k]

ReportsSuccess == shown # <<>> /\ shown[Len(shown)] = "success"

C22_ReplacesAll ==
    /\ (\E i \in DOMAIN calls : calls[i] = "delete") => parsed.kind = "return"
    /\ at_click[1] = "regenerate" /\ fpc = "end" /\ ReportsSuccess =>
          /\ Len(stored_ideas) = Len(Iterate(IdeasOf(parsed.value)))
          /\ \A i \in DOMAIN stored_ideas :
                IsStoredFormOf(stored_ideas[i], Iterate(IdeasOf(parsed.value))[i])
          /\ \A i \in DOMAIN stored_ideas : \A j \in DOMAIN at_click[3] :
                stored_ideas[i][2][IdKey] # at_click[3][j][2][IdKey]

(***************************************************************************)
(* C23  Bounded retry: for any max_retries, generate_with_retry invokes    *)
(* generate at most max_retries times, stops at the first success and      *)
(* returns its text without further attempts, and when no attempt          *)
(* succeeds it raises the exception raised by the last attempt.            *)
(***************************************************************************)
Succeeded(h) == \E i \in DOMAIN h : h[i].kind = "return"

ChildrenOf(parent_type, id) ==
    UNION {{r \in db[TABLE_MAPPING[t]] : r.ref # NoRef /\ r.ref[2] = id} :
             t \in {c \in DOMAIN DATA_HIERARCHY : DATA_HIERARCHY[c] = parent_type}}

C24_NoOrphans ==
    op.name = "delete" /\ op.ret[2] = TRUE /\ op.data_type \in {PROJECTS, EMPLOYEE_PERSONAS} =>
        ChildrenOf(op.data_type, op.id) = {}

(***************************************************************************)
(* C25  Delete is all-or-nothing: when DataStore.delete(parent_type, id)   *)
(* returns False (no client, unknown type, or the parent's deletion        *)
(* raised), the store is unchanged: the parent record and all of its       *)
(* child records are still present.                                        *)
(***************************************************************************)
C25_AllOrNothing ==
    op.name = "delete" /\ op.ret[2] = FALSE => db = before

(***************************************************************************)
(* C26  Disabled store is inert: when the DataStore has no database        *)
(* client, or the data type has no table mapping, every operation          *)
(* (create, get, update, delete, list, count, exists, bulk_create,         *)
(* bulk_delete) issues no database call, raises nothing and returns its    *)
(* neutral value (None, empty list, False or 0).                           *)
(***************************************************************************)
Neutral(name) ==
    CASE name \in {"create", "get", "update"} -> RetNone
      [] name \in {"list", "bulk_create"} -> RetRows({})
      [] name \in {"delete", "exists"} -> RetBool(FALSE)
      [] name \in {"count", "bulk_delete"} -> RetInt(0)

C26_DisabledInert ==
    op.name # "none" /\ (~client \/ op.data_type \notin DOMAIN TABLE_MAPPING) =>
        /\ db_calls = <<>>
        /\ ~op.raised
        /\ op.ret[1] = Neutral(op.name)[1]
        /\ op.ret = Neutral(op.name)
        /\ db = before

\* a delete of a stored project by a store that has no client
C26_Witness ==
    /\ ~client
    /\ op.name = "delete"
    /\ op.data_type = PROJECTS
    /\ op.id = "p1"
    /\ db = FullStore

(***************************************************************************)
(* C27  Prompt history loses nothing: after any sequence of save (with     *)
(* versioning), reset_to_default and restore_version on a prompt, every    *)
(* content that was overwritten is still present as a file in the version  *)
(* history; and after restore_version(name, v) returns True, load(name)    *)
(* equals the content of v and the content that was current before the     *)
(* restore is in the history.                                              *)
(***************************************************************************)
InHistory(prompt_name, content) ==
    \E v \in versions : v.name = prompt_name /\ v.content = content

C27_HistoryLosesNothing ==
    /\ \A n \in PromptNames : \A c \in overwritten[n] : InHistory(n, c)
    /\ pop.name = "restore" /\ pop.ret =>
          /\ current[pop.prompt] = pop.content
          /\ pop.replaced # "" => InHistory(pop.prompt, pop.replaced)

\* the "ai" section of a settings tree and its parts
AiOf(s) == s[2]["ai"][2]
ProviderOf(s) == AiOf(s)["provider"][2]
ModelsOf(s) == AiOf(s)["models"][2]
TaskModelsOf(s) == AiOf(s)["task_models"][2]

\* a model is set for the task
TaskModelSet(s, task) ==
    /\ task # ""
    /\ task \in DOMAIN TaskModelsOf(s)
    /\ TaskModelsOf(s)[task] # SLeaf("None")

\* C28: get_model(task) returns the model set for the task when one is set;
\* otherwise, also after set_task_model(task, None), it returns the model
\* configured for the current provider, and "gemini-2.0-flash" when none is
\* configured; set_model without a provider changes the current provider's
\* model and nothing else.
C28_ModelPriority ==
    /\ sop.name = "get_model" =>
          IF TaskModelSet(settings, sop.args[1])
          THEN sop.ret = TaskModelsOf(settings)[sop.args[1]]
          ELSE IF ProviderOf(settings) \in DOMAIN ModelsOf(settings)
          THEN sop.ret = ModelsOf(settings)[ProviderOf(settings)]
          ELSE sop.ret = SLeaf("gemini-2.0-flash")
    /\ (sop.name = "set_model" /\ sop.args[2] = "") =>
          /\ ProviderOf(settings) = ProviderOf(sop.before)
          /\ TaskModelsOf(settings) = TaskModelsOf(sop.before)
          /\ DOMAIN AiOf(settings) = DOMAIN AiOf(sop.before)
          /\ DOMAIN settings[2] = DOMAIN sop.before[2]
          /\ \A k \in DOMAIN settings[2] \ {"ai"} : settings[2][k] = sop.before[2][k]
          /\ DOMAIN ModelsOf(settings) = DOMAIN ModelsOf(sop.before) \cup {ProviderOf(settings)}
          /\ \A p \in DOMAIN ModelsOf(settings) :
                ModelsOf(settings)[p] = IF p = ProviderOf(settings) THEN SLeaf(sop.args[1])
                                        ELSE ModelsOf(sop.before)[p]

\* get_model("extract") gave the task's model although the current provider
\* has another one
C28_Witness ==
    /\ sop.name = "get_model"
    /\ sop.args = <<"extract">>
    /\ TaskModelSet(settings, "extract")
    /\ sop.ret = SLeaf("m1")
    /\ ProviderOf(settings) \in DOMAIN ModelsOf(settings)
    /\ ModelsOf(settings)[ProviderOf(settings)] # SLeaf("m1")

\* C29: after set(key, value) has returned, a newly constructed
\* SettingsManager reads back value for key, whether the save went to the
\* database or to the local file, and whether or not the database answers at
\* load time.
C29_SurvivesReload ==
    (sop.name = "reload" /\ last_set # NoSet) =>
        GetPath(settings, last_set.key, SNone) = last_set.value

\* C30: after any sequence of select, deselect, filter change and
\* regeneration, selected_ideas holds only ids of ideas stored for the
\* project, and the displayed selected count equals the number of listed
\* ideas that are selected.
C30_SelectionConsistent ==
    /\ selected_ideas \subseteq DOMAIN project_ideas
    /\ selected_count = Cardinality(listed \cap selected_ideas)

====
